---- MODULE Spec2Model ----
(***************************************************************************)
(* ExcelSlimmerWeb: the pipeline orchestrator (excel_suite_pipeline.py)    *)
(* and the file-level behaviour of its three stages, over an explicit      *)
(* file system.                                                            *)
(*                                                                         *)
(* A path is a record [dir, name, ext].  `name` is the stem, kept as the   *)
(* sequence of the pieces the code concatenates ("a" + "_slim" + "(1)"),   *)
(* so that two code paths that build the same string build the same        *)
(* value.  A piece is a pair <<text, k>>; k is only used by the "(k)"      *)
(* disambiguation piece.                                                   *)
(***************************************************************************)
EXTENDS Integers, Sequences, FiniteSets, TLC

VARIABLES
    fs,                 \* the file system: existing path -> content
    installed,          \* stage modules that imported successfully
    settings,           \* the process-wide AppSettings object
    now,                \* the wall clock, in seconds (names the clean stage's folder)
    runs,               \* number of pipeline runs started
    pc,                 \* position of run_pipeline_core
    args,               \* arguments of the current run
    steps,              \* the list `steps` of the run
    index,              \* the loop variable `index` (1-based)
    current,            \* the local `current`
    intermediate_files, \* the local list `intermediate_files`
    log_files,          \* the local list `log_files`
    backup_files,       \* the local list `backup_files`
    events,             \* callbacks invoked by the run, in order
    result,             \* paths handed to on_finished by the run
    fs0,                \* history: the file system when the run started
    stage_trace,        \* history: one record per stage call of the run
    finals              \* history: one record per run that reached on_finished

\* the variables of one run of a stage over one unpacked package
VARIABLES
    env,                \* PIL_OK and LXML_OK of the process that runs the stage
    pkg0,               \* history: the package as it was extracted
    pkg,                \* the unpacked package in the scratch directory
    job,                \* the stage that runs and its options
    ppc,                \* position of the stage
    todo,               \* the part of media_dir.iterdir() not yet visited
    rename_map,         \* the local `rename_map`: old media name -> new name
    changed,            \* the local `changed`
    rewritten,          \* history: reference parts written back by the synchronizer
    asset_log,          \* history: one record per media file visited
    stats,              \* what the defined-names filter reported
    out                 \* the repacked output, or NoPackage

pipe_vars == <<fs, installed, settings, now, runs, pc, args, steps, index, current,
               intermediate_files, log_files, backup_files, events, result,
               fs0, stage_trace, finals>>

pkg_vars == <<env, pkg0, pkg, job, ppc, todo, rename_map, changed, rewritten,
              asset_log, stats, out>>

\* the variables of one call of a function that works on files, observed
\* one file-system call at a time
VARIABLES
    call,               \* the function called and what it is called with
    cpc,                \* position of the call
    disk,               \* the files the call can touch: file -> content
    exc,                \* the exception that is propagating, or ""
    ret                 \* what the call returned, once it has

io_vars == <<call, cpc, disk, exc, ret>>

\* the variables of the web endpoint /api/slim
VARIABLES
    wpc,                \* position of slim_excel
    response,           \* what slim_excel returned or raised
    sent                \* what the server sent to the client, one entry per request

web_vars == <<wpc, response, sent>>

\* the variables of the Progress objects of the precision stage and of the
\* threads that call them
VARIABLES
    prog,               \* Progress object -> its fields total and current
    lock,               \* Progress object -> the thread that holds its _lock
    thr,                \* thread -> the calls it has to make and where it is
    pf,                 \* process_file: its arguments, steps and position
    label,              \* Progress object -> the percent _apply last posted
    owed,               \* history: object -> current as completed calls leave it
    issued              \* history: number of calls the callers have issued

prog_vars == <<prog, lock, thr, pf, label, owed, issued>>

vars == <<pipe_vars, pkg_vars, io_vars, web_vars, prog_vars>>

\* what an action of the orchestrator, of a stage over a package, of a
\* call, of the endpoint and of a thread leaves alone
not_pipe_vars == <<pkg_vars, io_vars, web_vars, prog_vars>>
not_pkg_vars == <<pipe_vars, io_vars, web_vars, prog_vars>>
not_io_vars == <<pipe_vars, pkg_vars, web_vars, prog_vars>>
not_web_vars == <<pkg_vars, io_vars, prog_vars>>
not_prog_vars == <<pipe_vars, pkg_vars, io_vars, web_vars>>

\* the progress variables while no Progress object is observed
ProgUnused ==
    /\ prog = <<>>
    /\ lock = <<>>
    /\ thr = <<>>
    /\ pf = <<>>
    /\ label = <<>>
    /\ owed = <<>>
    /\ issued = 0

\* the endpoint variables while no request is observed
WebUnused ==
    /\ wpc = "off"
    /\ response = <<>>
    /\ sent = <<>>

\* the call variables while something else is observed
IoUnused ==
    /\ call = <<>>
    /\ cpc = "off"
    /\ disk = <<>>
    /\ exc = ""
    /\ ret = "none"

\* the package variables while the orchestrator is what is observed
PkgUnused ==
    /\ env = <<>>
    /\ pkg0 = <<>>
    /\ pkg = <<>>
    /\ job = <<>>
    /\ ppc = "off"
    /\ todo = <<>>
    /\ rename_map = <<>>
    /\ changed = 0
    /\ rewritten = {}
    /\ asset_log = <<>>
    /\ stats = <<>>
    /\ out = <<>>

-----------------------------------------------------------------------------
(* Bounds of the model *)

MaxRuns == 2
MaxTime == 1

-----------------------------------------------------------------------------
(* Paths *)

Piece(s) == <<s, 0>>
Paren(k) == <<"()", k>>

SrcDir == <<"src", 0>>
OutDir == <<"out", 0>>
TsDir(t) == <<"ts", t>>
NoDir == <<"", 0>>

MkPath(d, n, e) == [dir |-> d, name |-> n, ext |-> e]

\* pathlib: p.with_stem(p.stem + piece) / p.with_name(f"{stem}{piece}{suffix}")
AddPiece(p, piece) == [p EXCEPT !.name = Append(@, piece)]

\* the i-th candidate of a "(1), (2), ..." loop whose first candidate is q
Numbered(q, i) == IF i = 0 THEN q ELSE AddPiece(q, Paren(i))

SupportedExts == {".xlsx", ".xlsm"}

-----------------------------------------------------------------------------
(* File system primitives *)

Exists(f, p) == p \in DOMAIN f

WriteFile(f, p, c) == [q \in DOMAIN f \cup {p} |-> IF q = p THEN c ELSE f[q]]

Unlink(f, p) == [q \in DOMAIN f \ {p} |-> f[q]]

\* shutil.copy2(a, b): b is created or overwritten with a's bytes
Copy2(f, a, b) == WriteFile(f, b, f[a])

\* Path.rename(a, b) / os.replace(a, b)
RenameFile(f, a, b) == WriteFile(Unlink(f, a), b, f[a])

\* content of a file: is it a ZIP container, and how its bytes came to be
Content(z, h) == [zip |-> z, hist |-> h]

\* the bytes a stage writes when it rewrites the package of content c
StageOutput(c, stage) == Content(TRUE, Append(c.hist, stage))

LogContent == Content(FALSE, <<"log">>)

-----------------------------------------------------------------------------
(* "(1), (2), ..." disambiguation: the loop                                 *)
(*     idx = 1; while candidate.exists(): candidate = name(idx); idx += 1   *)

RECURSIVE FirstFree(_, _, _)
FirstFree(f, q, i) ==
    IF ~Exists(f, Numbered(q, i)) THEN Numbered(q, i) ELSE FirstFree(f, q, i + 1)

-----------------------------------------------------------------------------
(* Stage 1: name-cleanup, gui_clean_defined_names_desktop_date.py           *)

TmpOut(p) == [p EXCEPT !.ext = @ \o ".tmp"]

\* mutant of ts_dir_of: the stage writes next to its input
ts_dir_beside_input(xlsx_path, t) == xlsx_path.dir

\* lines 166-172: <desktop>/ExcelSlimmed/<YYYY-MM-DD-HH-MM-SS>
ts_dir_of(xlsx_path, t) == TsDir(t)

\* process_file_gui(xlsx_path), called when datetime.now() is t
process_file_gui(f, xlsx_path, t) ==
    LET ts_dir == ts_dir_of(xlsx_path, t)
        backup_path == MkPath(ts_dir, Append(xlsx_path.name, Piece("_backup")), xlsx_path.ext)
        cleaned_path == MkPath(ts_dir, Append(xlsx_path.name, Piece("_clean")), xlsx_path.ext)
        tmp_out == TmpOut(cleaned_path)
        f1 == Copy2(f, xlsx_path, backup_path)
        f2 == WriteFile(f1, tmp_out, StageOutput(f[xlsx_path], "clean"))
        f3 == IF Exists(f2, cleaned_path) THEN Unlink(f2, cleaned_path) ELSE f2
        f4 == RenameFile(f3, tmp_out, cleaned_path)
    IN  IF ~Exists(f, xlsx_path)
        THEN [ok |-> FALSE, err |-> "FileNotFoundError", fs |-> f,
              backup_path |-> xlsx_path, cleaned_path |-> xlsx_path]
        ELSE IF xlsx_path.ext # ".xlsx"
        THEN [ok |-> FALSE, err |-> "ValueError", fs |-> f,
              backup_path |-> xlsx_path, cleaned_path |-> xlsx_path]
        ELSE IF ~f[xlsx_path].zip
        THEN [ok |-> FALSE, err |-> "BadZipFile", fs |-> f,
              backup_path |-> xlsx_path, cleaned_path |-> xlsx_path]
        ELSE [ok |-> TRUE, err |-> "", fs |-> f4,
              backup_path |-> backup_path, cleaned_path |-> cleaned_path]

-----------------------------------------------------------------------------
(* Stage 2: image-optimization, run_image_slim -> slim_xlsx                 *)

\* slim_xlsx(input_path, output_path, ..., log_path); wrote_log: whether any
\* log_write call happens for this package (no media folder, or at least one
\* media file with a supported extension)
slim_xlsx(f, input_path, output_path, log_path, wrote_log) ==
    LET f1 == IF wrote_log THEN WriteFile(f, log_path, LogContent) ELSE f
        f2 == WriteFile(f1, output_path, StageOutput(f[input_path], "image"))
    IN  IF ~Exists(f, input_path) THEN [ok |-> FALSE, err |-> "FileNotFoundError", fs |-> f]
        ELSE IF ~f[input_path].zip THEN [ok |-> FALSE, err |-> "BadZipFile", fs |-> f]
        ELSE [ok |-> TRUE, err |-> "", fs |-> f2]

run_image_slim(f, inst, input_path, wrote_log) ==
    LET out_path == FirstFree(f, AddPiece(input_path, Piece("_slim")), 0)
        log_path == MkPath(input_path.dir, Append(input_path.name, Piece("_image_slim")), ".log")
        r == slim_xlsx(f, input_path, out_path, log_path, wrote_log)
    IN  IF "image" \notin inst
        THEN [ok |-> FALSE, err |-> "RuntimeError", fs |-> f,
              out_path |-> input_path, log_path |-> log_path]
        ELSE [ok |-> r.ok, err |-> r.err, fs |-> r.fs,
              out_path |-> out_path, log_path |-> log_path]

-----------------------------------------------------------------------------
(* Stage 3: precision-slim, run_precision_step -> process_file              *)

\* make_backup(src, do_backup): called only for a supported extension
make_backup(f, src, do_backup) ==
    IF do_backup THEN Copy2(f, src, AddPiece(src, Piece("_backup"))) ELSE f

\* mutant of get_new_output_path: no existence check
get_new_output_path_unchecked(f, src_path) == AddPiece(src_path, Piece("_slimmed"))

get_new_output_path(f, src_path) == FirstFree(f, AddPiece(src_path, Piece("_slimmed")), 0)

\* process_file(src_path, ..., no_backup, ..., summary_dict): the file system
\* it leaves and the entries appended to summary_dict["files"] (output paths)
process_file(f, src_path, no_backup) ==
    LET f1 == make_backup(f, src_path, ~no_backup)
        out_path == get_new_output_path(f1, src_path)
        f2 == WriteFile(f1, out_path, StageOutput(f[src_path], "precision"))
    IN  IF ~Exists(f, src_path) THEN [fs |-> f, files |-> <<>>, backups |-> {}]
        ELSE IF src_path.ext \notin SupportedExts THEN [fs |-> f, files |-> <<>>, backups |-> {}]
        ELSE IF ~f[src_path].zip
             \* unzip_to_temp raises inside the try: caught and logged by process_file
        THEN [fs |-> f1, files |-> <<>>,
              backups |-> IF no_backup THEN {} ELSE {AddPiece(src_path, Piece("_backup"))}]
        ELSE [fs |-> f2, files |-> <<out_path>>,
              backups |-> IF no_backup THEN {} ELSE {AddPiece(src_path, Piece("_backup"))}]

run_precision_step(f, inst, input_path, no_backup) ==
    LET r == process_file(f, input_path, no_backup)
    IN  IF "precision" \notin inst
        THEN [ok |-> FALSE, err |-> "RuntimeError", fs |-> f, out_path |-> input_path, backups |-> {}]
        ELSE IF r.files # <<>>
        THEN [ok |-> TRUE, err |-> "", fs |-> r.fs, out_path |-> r.files[Len(r.files)],
              backups |-> r.backups]
        ELSE IF ~Exists(r.fs, input_path)   \* input_path.stat() raises
        THEN [ok |-> FALSE, err |-> "FileNotFoundError", fs |-> r.fs, out_path |-> input_path,
              backups |-> r.backups]
        ELSE [ok |-> TRUE, err |-> "", fs |-> r.fs, out_path |-> input_path, backups |-> r.backups]

-----------------------------------------------------------------------------
(* The orchestrator: run_pipeline_core                                      *)

NoPath == MkPath(NoDir, <<>>, "")

\* set_status(label, None)
NoPct == <<-1, 1>>

\* the float n / d, kept exact
Pct(n, d) == IF n % d = 0 THEN <<n \div d, 1>> ELSE <<n, d>>

Ev(cb, text, pct) == [cb |-> cb, text |-> text, pct |-> pct]

\* the list `steps` built from the three flags
StepsOf(use_clean, use_image, use_precision) ==
    (IF use_clean THEN <<"clean">> ELSE <<>>)
    \o (IF use_image THEN <<"image">> ELSE <<>>)
    \o (IF use_precision THEN <<"precision">> ELSE <<>>)

total == Len(steps)

\* base and next_p of the loop body
base == Pct((index - 1) * 100, total)
next_p == Pct(index * 100, total)

IsLast(step) == step = steps[Len(steps)]

\* the user's workbook and files that may lie around from earlier work
UserStem == <<Piece("a")>>
UserExts == {".xlsx", ".xlsm", ".txt"}

LeftOvers(e) ==
    { MkPath(SrcDir, UserStem \o <<Piece("_complete")>>, e),
      MkPath(OutDir, UserStem \o <<Piece("_complete"), Paren(1)>>, e),
      MkPath(SrcDir, UserStem \o <<Piece("_slimmed")>>, e) }

OldContent == Content(TRUE, <<"old">>)

\* what the import block at lines 41-70 found: everything, no precision
\* module, or none of the stage modules
InstalledChoices == { {"clean", "image", "precision"}, {"clean", "image"}, {} }

MkSettings(kb, od, ol) ==
    [keep_backup |-> kb, output_dir |-> od, open_log_on_error |-> ol,
     last_run_log_file |-> <<>>]

SettingsChoices ==
    { MkSettings(kb, od, FALSE) : kb \in BOOLEAN, od \in {NoDir, OutDir} }
    \cup { MkSettings(FALSE, NoDir, TRUE) }

Init ==
    /\ \E e \in UserExts, z \in BOOLEAN : \E old \in SUBSET LeftOvers(e) :
         fs = [p \in {MkPath(SrcDir, UserStem, e)} \cup old |->
                 IF p \in old THEN OldContent ELSE Content(z, <<"user">>)]
    /\ installed \in InstalledChoices
    /\ settings \in SettingsChoices
    /\ now = 0
    /\ runs = 0
    /\ pc = "idle"
    /\ args = [start_path |-> NoPath, use_clean |-> FALSE, use_image |-> FALSE,
               use_precision |-> FALSE]
    /\ steps = <<>>
    /\ index = 0
    /\ current = NoPath
    /\ intermediate_files = <<>>
    /\ log_files = <<>>
    /\ backup_files = <<>>
    /\ events = <<>>
    /\ result = <<>>
    /\ fs0 = fs
    /\ stage_trace = <<>>
    /\ finals = <<>>
    /\ PkgUnused
    /\ IoUnused
    /\ ProgUnused
    /\ WebUnused

\* a caller hands over an existing file (the GUI checks it, the web endpoint
\* has just saved the upload)
StartPaths == {p \in DOMAIN fs : p.dir = SrcDir /\ p.name = UserStem}

\* both front ends refuse any other extension before they call
\* run_pipeline_core (_on_run_clicked lines 663-665, slim_excel lines 49-51)
Accepted(start_path) == start_path.ext \in SupportedExts

\* the front end refuses the request: an error box, or HTTP 400
RejectRun ==
    /\ pc \in {"idle", "done", "failed", "rejected"}
    /\ runs < MaxRuns
    /\ \E start_path \in StartPaths, use_clean \in BOOLEAN, use_image \in BOOLEAN,
          use_precision \in BOOLEAN :
         /\ ~Accepted(start_path)
         /\ args' = [start_path |-> start_path, use_clean |-> use_clean,
                     use_image |-> use_image, use_precision |-> use_precision]
    /\ runs' = runs + 1
    /\ pc' = "rejected"
    /\ steps' = <<>>
    /\ index' = 0
    /\ current' = NoPath
    /\ intermediate_files' = <<>>
    /\ log_files' = <<>>
    /\ backup_files' = <<>>
    /\ events' = <<>>
    /\ result' = <<>>
    /\ fs0' = fs
    /\ stage_trace' = <<>>
    /\ UNCHANGED <<fs, installed, settings, now, finals>>
    /\ UNCHANGED not_pipe_vars

\* the front end calls run_pipeline_core; lines 166-180: the locals and the
\* first log line
StartRun ==
    /\ pc \in {"idle", "done", "failed", "rejected"}
    /\ runs < MaxRuns
    /\ \E start_path \in StartPaths, use_clean \in BOOLEAN, use_image \in BOOLEAN,
          use_precision \in BOOLEAN :
         /\ Accepted(start_path)
         /\ args' = [start_path |-> start_path, use_clean |-> use_clean,
                     use_image |-> use_image, use_precision |-> use_precision]
         /\ steps' = StepsOf(use_clean, use_image, use_precision)
         /\ current' = start_path
         /\ pc' = IF StepsOf(use_clean, use_image, use_precision) = <<>>
                  THEN "rename" ELSE "stage"
    /\ runs' = runs + 1
    /\ index' = 1
    /\ intermediate_files' = <<>>
    /\ log_files' = <<>>
    /\ backup_files' = <<>>
    /\ events' = <<Ev("log", "start", NoPct)>>
    /\ result' = <<>>
    /\ fs0' = fs
    /\ stage_trace' = <<>>
    /\ UNCHANGED <<fs, installed, settings, now, finals>>
    /\ UNCHANGED not_pipe_vars

\* mutant of OnStageError: the error is logged and the run returns without
\* a call of show_error
OnStageError_silent(evs) ==
    /\ events' = evs \o <<Ev("log", "error", NoPct), Ev("set_status", "error", NoPct)>>
    /\ settings' = settings
    /\ pc' = "failed"
    /\ UNCHANGED <<index, current, intermediate_files, log_files, backup_files>>

\* mutant of OnStageError: the error is logged and the loop goes on
OnStageError_continue(evs) ==
    /\ events' = evs \o <<Ev("log", "error", NoPct)>>
    /\ settings' = settings
    /\ index' = index + 1
    /\ pc' = IF index = total THEN "rename" ELSE "stage"
    /\ UNCHANGED <<current, intermediate_files, log_files, backup_files>>

\* lines 286-307: the except branch of the loop body
OnStageError(evs) ==
    /\ events' = evs \o <<Ev("log", "error", NoPct), Ev("set_status", "error", NoPct),
                           Ev("show_error", "error", NoPct)>>
    /\ settings' = IF log_files # <<>> /\ settings.open_log_on_error
                   THEN [settings EXCEPT !.last_run_log_file = <<log_files[Len(log_files)]>>]
                   ELSE settings
    /\ pc' = "failed"
    /\ UNCHANGED <<index, current, intermediate_files, log_files, backup_files>>

\* line 285 and the loop header: set_status(progress, next_p), next step
OnStageDone(evs) ==
    /\ events' = evs \o <<Ev("set_status", "progress", next_p)>>
    /\ settings' = settings
    /\ index' = index + 1
    /\ pc' = IF index = total THEN "rename" ELSE "stage"

\* history record of one stage call: what it was given, how it ended, the
\* files it wrote and which of them are backup copies
Trace(step, input, r, output, wrote, backups) ==
    [step |-> step, index |-> index, input |-> input,
     in_zip |-> Exists(fs, input) /\ fs[input].zip,
     ok |-> r.ok, err |-> r.err, output |-> output, wrote |-> wrote, backups |-> backups]

Raised(e) == [ok |-> FALSE, err |-> e]

\* datetime.now(), to the second: the second of the previous reading or a later one
Clock == {now, IF now < MaxTime THEN now + 1 ELSE now}

\* mutant of StageInput: every stage is given the original input
StageInput_original == args.start_path

\* the file handed to a stage: `current` at lines 197, 229 and 268
StageInput == current

\* lines 186-215
StageClean ==
    /\ pc = "stage"
    /\ steps[index] = "clean"
    /\ IF "clean" \notin installed
       THEN /\ OnStageError(events)
            /\ stage_trace' = Append(stage_trace,
                   Trace("clean", StageInput, Raised("RuntimeError"), StageInput, {}, {}))
            /\ UNCHANGED <<fs, now>>
       ELSE \E t \in Clock :
            LET r == process_file_gui(fs, StageInput, t)
                evs == events \o <<Ev("set_status", "clean", base), Ev("log", "clean", NoPct)>>
            IN  /\ now' = t
                /\ fs' = r.fs
                /\ stage_trace' = Append(stage_trace,
                       Trace("clean", StageInput, r, r.cleaned_path,
                             IF r.ok THEN {r.backup_path, r.cleaned_path} ELSE {},
                             IF r.ok THEN {r.backup_path} ELSE {}))
                /\ IF r.ok
                   THEN /\ current' = r.cleaned_path
                        /\ intermediate_files' =
                             IF ~IsLast("clean") THEN Append(intermediate_files, r.cleaned_path)
                             ELSE intermediate_files
                        /\ backup_files' = Append(backup_files, r.backup_path)
                        /\ OnStageDone(evs)
                        /\ UNCHANGED log_files
                   ELSE OnStageError(evs)
    /\ UNCHANGED <<installed, runs, args, steps, result, fs0, finals>>
    /\ UNCHANGED not_pipe_vars

\* lines 216-250
StageImage ==
    /\ pc = "stage"
    /\ steps[index] = "image"
    /\ \E wrote_log \in BOOLEAN :
         LET r == run_image_slim(fs, installed, StageInput, wrote_log)
             evs == events \o <<Ev("set_status", "image", base), Ev("log", "image", NoPct)>>
         IN  /\ fs' = r.fs
             /\ stage_trace' = Append(stage_trace,
                    Trace("image", StageInput, r, r.out_path,
                          IF r.ok THEN {r.out_path} \cup (IF wrote_log THEN {r.log_path} ELSE {})
                          ELSE {}, {}))
             /\ IF r.ok
                THEN /\ current' = r.out_path
                     /\ intermediate_files' =
                          IF ~IsLast("image") THEN Append(intermediate_files, r.out_path)
                          ELSE intermediate_files
                     /\ log_files' = Append(log_files, r.log_path)
                     /\ OnStageDone(evs)
                     /\ UNCHANGED backup_files
                ELSE OnStageError(evs)
    /\ UNCHANGED <<installed, now, runs, args, steps, result, fs0, finals>>
    /\ UNCHANGED not_pipe_vars

\* lines 251-283
StagePrecision ==
    /\ pc = "stage"
    /\ steps[index] = "precision"
    /\ LET has_clean_step == \E i \in 1 .. Len(steps) : steps[i] = "clean"
           no_backup == has_clean_step
           r == run_precision_step(fs, installed, StageInput, no_backup)
           evs == events \o <<Ev("set_status", "precision", base), Ev("log", "precision", NoPct)>>
       IN  /\ fs' = r.fs
           /\ stage_trace' = Append(stage_trace,
                  Trace("precision", StageInput, r, r.out_path,
                        r.backups \cup (IF r.out_path # StageInput THEN {r.out_path} ELSE {}),
                        r.backups))
           /\ IF r.ok
              THEN /\ current' = r.out_path
                   /\ OnStageDone(evs)
                   /\ UNCHANGED <<intermediate_files, log_files, backup_files>>
              ELSE OnStageError(evs)
    /\ UNCHANGED <<installed, now, runs, args, steps, result, fs0, finals>>
    /\ UNCHANGED not_pipe_vars

-----------------------------------------------------------------------------
(* After the loop: lines 309-380                                            *)

\* mutant of final_candidate: the desired name is used without the loop
final_candidate_unchecked(f, cur, orig_stem) ==
    MkPath(cur.dir, Append(orig_stem, Piece("_complete")), cur.ext)

\* lines 312-323: the name the final output is renamed to
final_candidate(f, cur, orig_stem) ==
    LET desired == MkPath(cur.dir, Append(orig_stem, Piece("_complete")), cur.ext)
    IN  IF desired # cur THEN FirstFree(f, desired, 0) ELSE cur

\* lines 311-330
FinalRename ==
    /\ pc = "rename"
    /\ LET candidate == final_candidate(fs, current, args.start_path.name)
       IN  IF candidate # current
           THEN IF Exists(fs, current)
                THEN /\ fs' = RenameFile(fs, current, candidate)
                     /\ current' = candidate
                     /\ events' = Append(events, Ev("log", "renamed", NoPct))
                ELSE \* old.rename raises: caught, logged as a warning
                     /\ events' = Append(events, Ev("log", "warn-rename", NoPct))
                     /\ UNCHANGED <<fs, current>>
           ELSE UNCHANGED <<fs, current, events>>
    /\ pc' = "move"
    /\ UNCHANGED <<installed, settings, now, runs, args, steps, index, intermediate_files,
                   log_files, backup_files, result, fs0, stage_trace, finals>>
    /\ UNCHANGED not_pipe_vars

\* lines 338-342: where the final output is moved to in the output folder
move_candidate(f, cur, target_dir) == FirstFree(f, [cur EXCEPT !.dir = target_dir], 0)

\* lines 333-349
MoveToOutputDir ==
    /\ pc = "move"
    /\ IF settings.output_dir # NoDir /\ settings.output_dir # current.dir /\ Exists(fs, current)
       THEN LET candidate == move_candidate(fs, current, settings.output_dir)
            IN  /\ fs' = RenameFile(fs, current, candidate)
                /\ current' = candidate
                /\ events' = Append(events, Ev("log", "moved", NoPct))
       ELSE IF settings.output_dir # NoDir /\ settings.output_dir # current.dir
       THEN /\ events' = Append(events, Ev("log", "warn-move", NoPct))
            /\ UNCHANGED <<fs, current>>
       ELSE UNCHANGED <<fs, current, events>>
    /\ pc' = "backups"
    /\ UNCHANGED <<installed, settings, now, runs, args, steps, index, intermediate_files,
                   log_files, backup_files, result, fs0, stage_trace, finals>>
    /\ UNCHANGED not_pipe_vars

\* for x in xs: if x.exists() and keep(x): x.unlink()
RECURSIVE UnlinkAll(_, _, _)
UnlinkAll(f, xs, skip) ==
    IF xs = <<>> THEN f
    ELSE UnlinkAll(IF Exists(f, Head(xs)) /\ Head(xs) # skip THEN Unlink(f, Head(xs)) ELSE f,
                   Tail(xs), skip)

\* lines 352-359
delete_backups(f, keep_backup, backups, cur) ==
    IF ~keep_backup THEN UnlinkAll(f, backups, cur) ELSE f

DeleteBackups ==
    /\ pc = "backups"
    /\ fs' = delete_backups(fs, settings.keep_backup, backup_files, current)
    /\ pc' = "cleanup"
    /\ UNCHANGED <<installed, settings, now, runs, args, steps, index, current,
                   intermediate_files, log_files, backup_files, events, result, fs0,
                   stage_trace, finals>>
    /\ UNCHANGED not_pipe_vars

\* lines 362-376
cleanup_files(f, intermediates, logs, cur) ==
    UnlinkAll(UnlinkAll(f, intermediates, cur), logs, NoPath)

Cleanup ==
    /\ pc = "cleanup"
    /\ fs' = cleanup_files(fs, intermediate_files, log_files, current)
    /\ pc' = "finish"
    /\ UNCHANGED <<installed, settings, now, runs, args, steps, index, current,
                   intermediate_files, log_files, backup_files, events, result, fs0,
                   stage_trace, finals>>
    /\ UNCHANGED not_pipe_vars

\* lines 378-380
Finish ==
    /\ pc = "finish"
    /\ events' = events \o <<Ev("set_status", "all done", Pct(100, 1)), Ev("log", "done", NoPct),
                             Ev("on_finished", "", NoPct)>>
    /\ result' = Append(result, current)
    /\ finals' = Append(finals, [start |-> args.start_path, steps |-> steps, path |-> current])
    /\ pc' = "done"
    /\ UNCHANGED <<fs, installed, settings, now, runs, args, steps, index, current,
                   intermediate_files, log_files, backup_files, fs0, stage_trace>>
    /\ UNCHANGED not_pipe_vars

Next ==
    \/ RejectRun
    \/ StartRun
    \/ StageClean
    \/ StageImage
    \/ StagePrecision
    \/ FinalRename
    \/ MoveToOutputDir
    \/ DeleteBackups
    \/ Cleanup
    \/ Finish

Spec == Init /\ [][Next]_vars

-----------------------------------------------------------------------------
(* Vocabulary of the properties                                             *)

Running == pc \notin {"idle", "rejected"}
Start == args.start_path

\* every file written by the stages of the run so far, and the backups among them
Produced == UNION {stage_trace[i].wrote : i \in DOMAIN stage_trace}
MadeBackups == UNION {stage_trace[i].backups : i \in DOMAIN stage_trace}

Count(cb) == Cardinality({i \in DOMAIN events : events[i].cb = cb})
Has(cb, text) == \E i \in DOMAIN events : events[i].cb = cb /\ events[i].text = text

-----------------------------------------------------------------------------
\* C1: in every run of run_pipeline_core, whatever stages are enabled and
\* whether it succeeds or fails, a file still exists at the original input
\* path with its original bytes.
C1_OriginalUntouched ==
    Running => Exists(fs, Start) /\ fs[Start] = fs0[Start]


-----------------------------------------------------------------------------
\* C2: when an enabled stage fails, the error is logged, show_error is
\* invoked (once), no later stage is started, on_finished is not called, and
\* every file the run has produced so far, like every file that was there
\* before the run, is still in place: nothing is renamed or deleted.
C2_FailureStopsRun ==
    (\E i \in DOMAIN stage_trace : ~stage_trace[i].ok) =>
        /\ pc = "failed"
        /\ Len(stage_trace) = index
        /\ \A i \in DOMAIN stage_trace : stage_trace[i].ok <=> i < index
        /\ Len(events) >= 3
        /\ events[Len(events) - 2] = Ev("log", "error", NoPct)
        /\ events[Len(events)] = Ev("show_error", "error", NoPct)
        /\ Count("show_error") = 1
        /\ Count("on_finished") = 0
        /\ result = <<>>
        /\ ~Has("log", "renamed") /\ ~Has("log", "moved")
        /\ \A p \in Produced : Exists(fs, p)
        /\ \A p \in DOMAIN fs0 : Exists(fs, p)

\* C2 witness: the third stage failed after two stages had left an
\* intermediate file, a backup and a log file behind.
C2_Witness ==
    /\ pc = "failed"
    /\ index = 3
    /\ intermediate_files # <<>>
    /\ \E i \in DOMAIN log_files : Exists(fs, log_files[i])
    /\ MadeBackups # {}

-----------------------------------------------------------------------------
\* C3: if the file handed to an enabled stage is not a ZIP container, the
\* stage fails, the run aborts, show_error is invoked and on_finished is
\* never called -- for each of the three stages.
C3_CorruptArchiveFatal ==
    \A i \in DOMAIN stage_trace :
        ~stage_trace[i].in_zip =>
            /\ ~stage_trace[i].ok
            /\ pc = "failed"
            /\ Count("show_error") = 1
            /\ result = <<>>

-----------------------------------------------------------------------------
\* C4: a run is accepted exactly when the input extension is .xlsx or .xlsm:
\* with any other extension the request fails before a stage does work,
\* nothing is written and nothing renamed; with .xlsx and with .xlsm no
\* enabled stage (name-cleanup included) rejects the file for its extension.
C4_ExtensionGate ==
    /\ pc = "rejected" => Start.ext \notin SupportedExts /\ fs = fs0 /\ stage_trace = <<>>
    /\ Running =>
          /\ Start.ext \in SupportedExts
          /\ \A i \in DOMAIN stage_trace : stage_trace[i].err # "ValueError"

-----------------------------------------------------------------------------
Rank(step) == CASE step = "clean" -> 1 [] step = "image" -> 2 [] step = "precision" -> 3

StepSet == {steps[i] : i \in DOMAIN steps}

\* C5: the enabled stages run one at a time in the fixed order name-cleanup,
\* image-optimization, precision-slim, whatever subset is selected; a stage
\* starts only after the previous one has returned, and its input is the
\* output file of the previous enabled stage (the original input for the
\* first), which exists when the stage starts.
C5_StagesInOrder ==
    Running =>
        /\ \A i, j \in DOMAIN steps : i < j => Rank(steps[i]) < Rank(steps[j])
        /\ "clean" \in StepSet <=> args.use_clean
        /\ "image" \in StepSet <=> args.use_image
        /\ "precision" \in StepSet <=> args.use_precision
        /\ Len(stage_trace) <= Len(steps)
        /\ \A i \in DOMAIN stage_trace :
              /\ stage_trace[i].step = steps[i]
              /\ stage_trace[i].index = i
              /\ stage_trace[i].input = IF i = 1 THEN Start ELSE stage_trace[i - 1].output
              /\ i < Len(stage_trace) => stage_trace[i].ok
        /\ pc = "stage" =>
              /\ Len(stage_trace) = index - 1
              /\ current = IF index = 1 THEN Start ELSE stage_trace[index - 1].output
              /\ Exists(fs, current)

\* C5 witness: a run in which all three stages ran and returned.
C5_Witness ==
    /\ pc = "done"
    /\ Len(stage_trace) = 3
    /\ \A i \in DOMAIN stage_trace : stage_trace[i].ok /\ stage_trace[i].output # stage_trace[i].input

-----------------------------------------------------------------------------
CompleteStem == Append(Start.name, Piece("_complete"))

\* the directory in which the last stage left its output
LastDir == IF stage_trace = <<>> THEN Start.dir ELSE stage_trace[Len(stage_trace)].output.dir

MaxIdx == Cardinality(DOMAIN fs0) + 1

\* p is the first name of the sequence q, q(1), q(2), ... that was free when
\* the run started
FirstFreeOf(p, q) ==
    /\ p \notin DOMAIN fs0
    /\ \E k \in 0 .. MaxIdx :
          /\ p = Numbered(q, k)
          /\ \A j \in 0 .. k - 1 : Numbered(q, j) \in DOMAIN fs0

-----------------------------------------------------------------------------
\* C7: on full success every backup file written during the run (by the
\* name-cleanup stage or by the precision stage's make_backup) is gone when
\* keep_backup is false, and all of them remain when keep_backup is true.
C7_BackupsFollowSetting ==
    pc = "done" => \A b \in MadeBackups : Exists(fs, b) <=> settings.keep_backup

-----------------------------------------------------------------------------
\* C8: on full success every output of a non-final stage and every stage log
\* is gone, the final output exists, and apart from kept backups it is the
\* only file the run has added.
C8_OnlyFinalRemains ==
    pc = "done" =>
        /\ \A i \in DOMAIN stage_trace : i < Len(steps) => ~Exists(fs, stage_trace[i].output)
        /\ \A i \in DOMAIN log_files : ~Exists(fs, log_files[i])
        /\ Exists(fs, result[1])
        /\ (DOMAIN fs \ DOMAIN fs0) \subseteq
              ({result[1]} \cup (IF settings.keep_backup THEN MadeBackups ELSE {}))

-----------------------------------------------------------------------------
-----------------------------------------------------------------------------
SlimmedBase == AddPiece(Start, Piece("_slimmed"))

\* C10 (as claimed): two runs of the pipeline on the same input, prior
\* outputs kept, report <stem>_slimmed<ext> and then <stem>_slimmed(1)<ext>:
\* the name reported is one of the sequence _slimmed, _slimmed(1), ...
C10_SlimmedSequence ==
    \A i \in DOMAIN finals :
        finals[i].steps = <<"precision">> =>
            \E k \in 0 .. MaxIdx :
                finals[i].path.name = Numbered(AddPiece(finals[i].start, Piece("_slimmed")), k).name

\* C10 (amended): the precision stage writes its output under the first name
\* of <stem>_slimmed<ext>, _slimmed(1), ... that does not exist yet and so
\* overwrites nothing, but run_pipeline_core then renames it: two
\* precision-only runs on the same input with no output directory, prior
\* outputs kept, report <stem>_complete<ext> and then <stem>_complete(1)<ext>,
\* and the first output is still there, unchanged.
C10_CompleteSequence ==
    /\ (Running /\ steps = <<"precision">> /\ stage_trace # <<>>
            /\ stage_trace[1].output # stage_trace[1].input)
         => FirstFreeOf(stage_trace[1].output, SlimmedBase)
    /\ (pc = "done" /\ steps = <<"precision">> /\ Len(finals) >= 2
            /\ settings.output_dir = NoDir)
         => LET prev == finals[Len(finals) - 1]
                cur == finals[Len(finals)]
            IN  (/\ prev.start = cur.start
                 /\ prev.steps = cur.steps
                 /\ prev.path.name = CompleteStem
                 /\ Numbered(prev.path, 1) \notin DOMAIN fs0)
                => /\ cur.path = Numbered(prev.path, 1)
                   /\ Exists(fs, prev.path)
                   /\ fs[prev.path] = fs0[prev.path]

\* C10 witness: the second of two precision-only runs has finished; each
\* wrote _slimmed(1) because _slimmed was taken, and they reported
\* _complete and _complete(1).
C10_Witness ==
    /\ pc = "done"
    /\ Len(finals) = 2
    /\ steps = <<"precision">>
    /\ finals[1].steps = <<"precision">>
    /\ settings.output_dir = NoDir
    /\ stage_trace[1].output = Numbered(SlimmedBase, 1)
    /\ finals[1].path.name = CompleteStem
    /\ finals[2].path = Numbered(finals[1].path, 1)

-----------------------------------------------------------------------------
(***************************************************************************)
(* One stage over one unpacked package: the precision stage                *)
(* (excel_slimmer_precision_plus.process_file), the image stage            *)
(* (excel_image_slimmer_gui_v3.slim_xlsx) and the defined-names filter of  *)
(* the clean stage (surgical_filter_defined_names_text).                   *)
(*                                                                         *)
(* A media file name is a record [stem, ext], as pathlib splits it.  The   *)
(* content of a media file is a record [img, size, alpha, fmt, thumb]:     *)
(* the picture it shows (named after the file it came from), its length   *)
(* in bytes, whether the picture has alpha or transparency, the format of  *)
(* its bytes, and whether it went through the aggressive-mode thumbnail.   *)
(***************************************************************************)

\* bounds of the package model
MaxAssets == 2
MaxSize == 3
MaxNames == 2

MediaName(stem, ext) == [stem |-> stem, ext |-> ext]

\* p.suffix.lower(), on the suffixes the model draws
Lower(ext) == IF ext = ".PNG" THEN ".png" ELSE ext

\* p.with_suffix(p.suffix + ".tmp")
TmpOf(n) == [n EXCEPT !.ext = @ \o ".tmp"]

\* new_name = p.stem + ".jpg"
JpgOf(n) == MediaName(n.stem, ".jpg")

Image(img, size, alpha, fmt) ==
    [img |-> img, size |-> size, alpha |-> alpha, fmt |-> fmt, thumb |-> FALSE]

Png1 == MediaName("image1", ".png")
Jpg1 == MediaName("image1", ".jpg")
PNG2 == MediaName("image2", ".PNG")
Jpeg2 == MediaName("image2", ".jpeg")
Gif3 == MediaName("image3", ".gif")

MediaUniverse == {Png1, Jpg1, PNG2, Jpeg2, Gif3}

\* the format a well-formed input holds under each suffix
FormatOf(n) ==
    CASE Lower(n.ext) = ".png" -> "png"
      [] Lower(n.ext) \in {".jpg", ".jpeg"} -> "jpeg"
      [] OTHER -> "gif"

\* JPEG cannot carry alpha; PNG and GIF can
AlphaChoices(n) == IF FormatOf(n) = "jpeg" THEN {FALSE} ELSE BOOLEAN

\* lengths of the input files: one that no encoder undercuts, one that some do
OrigSizes(n) == IF n = Jpg1 THEN {1} ELSE {MaxSize}

\* lengths an encoder can produce
NewSizes == 2..MaxSize

\* xl/media of the inputs: at most MaxAssets files
MediaChoices ==
    UNION { { m \in [S -> [img : MediaUniverse, size : 1..MaxSize, alpha : BOOLEAN,
                           fmt : {"png", "jpeg", "gif"}, thumb : {FALSE}]] :
                \A n \in S : /\ m[n].img = n
                             /\ m[n].size \in OrigSizes(n)
                             /\ m[n].alpha \in AlphaChoices(n)
                             /\ m[n].fmt = FormatOf(n) }
            : S \in {T \in SUBSET MediaUniverse : Cardinality(T) <= MaxAssets} }

\* the parts that name a media file: a relationship Target, the src of a
\* legacy-drawing imagedata, an Override PartName of the manifest.  The text
\* is prefix \o file name.
RelsPart == "xl/drawings/_rels/drawing1.xml.rels"
VmlPart == "xl/drawings/vmlDrawing1.vml"
ContentTypesPart == "[Content_Types].xml"

Ref(part, kind, prefix, name) ==
    [part |-> part, kind |-> kind, prefix |-> prefix, name |-> name]

RefsOf(media) ==
    UNION { { Ref(RelsPart, "rel", "../media/", n),
              Ref(VmlPart, "vml", "/xl/media/", n),
              Ref(ContentTypesPart, "override", "/xl/media/", n) } : n \in DOMAIN media }

\* a workbook as Excel writes it: the pictures are named by relationships
\* only, there is no legacy drawing, and the manifest gives the content type
\* of a picture by a Default entry for its extension
RelRefsOf(media) == { Ref(RelsPart, "rel", "../media/", n) : n \in DOMAIN media }

DefaultsOf(media) == { Lower(n.ext) : n \in DOMAIN media }

\* the other parts of the inputs
CalcChain == "xl/calcChain.xml"
PrinterSettings == "xl/printerSettings/printerSettings1.bin"
Thumbnail == "docProps/thumbnail.jpeg"
CustomProps == "docProps/custom.xml"
CustomXmlItem == "customXml/item1.xml"
XlCustomXmlItem == "xl/customXml/item1.xml"
Workbook == "xl/workbook.xml"

PrunableParts == {CalcChain, PrinterSettings, Thumbnail, CustomProps}

\* the custom-XML data parts of a package: Excel stores them in /customXml,
\* the code looks in /xl/customXml
CustomXmlParts == {CustomXmlItem, XlCustomXmlItem}

FullParts == PrunableParts \cup CustomXmlParts \cup {Workbook}

\* the saveData attribute of the root of each pivotCacheDefinition part
PivotCache1 == "xl/pivotCache/pivotCacheDefinition1.xml"
PivotCache2 == "xl/pivotCache/pivotCacheDefinition2.xml"
PivotCache3 == "xl/pivotCache/pivotCacheDefinition3.xml"

PivotIn == (PivotCache1 :> "1") @@ (PivotCache2 :> "0") @@ (PivotCache3 :> "absent")

\* the definedNames block of xl/workbook.xml: its definedName elements in
\* document order, each with its name attribute and whether it is written
\* <definedName .../> instead of <definedName ...>...</definedName>
KEEP_NAMES == {"_xlnm.Print_Area", "_xlnm.Print_Titles", "Print_Area", "Print_Titles"}

DefinedName(name, self_closing) == [name |-> name, self_closing |-> self_closing]

NameUniverse == {"Print_Area", "_xlnm.Print_Titles", "Macro1"}

Entries == [name : NameUniverse, self_closing : BOOLEAN]

NoBlock == [block |-> FALSE, body |-> <<>>]
Block(body) == [block |-> TRUE, body |-> body]

BodyChoices == UNION { [1..k -> Entries] : k \in 0..MaxNames }

Package(media, names) ==
    [media |-> media, refs |-> RefsOf(media), parts |-> FullParts, pivot |-> PivotIn,
     names |-> names, defaults |-> {}]

DefaultTyped(media) ==
    [media |-> media, refs |-> RelRefsOf(media), parts |-> FullParts, pivot |-> PivotIn,
     names |-> NoBlock, defaults |-> DefaultsOf(media)]

NoPackage == [media |-> <<>>, refs |-> {}, parts |-> {}, pivot |-> <<>>, names |-> NoBlock,
              defaults |-> {}]

\* the inputs: workbooks that differ in their media and in how the manifest
\* types them, and workbooks that differ in their defined names
Packages ==
    {Package(m, NoBlock) : m \in MediaChoices}
    \cup {DefaultTyped(m) : m \in MediaChoices}
    \cup {Package(<<>>, Block(b)) : b \in BodyChoices}

Envs == [PIL_OK : BOOLEAN, LXML_OK : BOOLEAN]

NoJob == [tool |-> "", aggressive |-> FALSE, do_xml_cleanup |-> FALSE,
          force_customxml_remove |-> FALSE]

NoStats == [total |-> -1, kept |-> -1, removed |-> -1]

\* the orchestrator variables while one stage over one package is observed
PipeUnused ==
    /\ fs = <<>>
    /\ installed = {}
    /\ settings = MkSettings(FALSE, NoDir, FALSE)
    /\ now = 0
    /\ runs = 0
    /\ pc = "off"
    /\ args = [start_path |-> NoPath, use_clean |-> FALSE, use_image |-> FALSE,
               use_precision |-> FALSE]
    /\ steps = <<>>
    /\ index = 0
    /\ current = NoPath
    /\ intermediate_files = <<>>
    /\ log_files = <<>>
    /\ backup_files = <<>>
    /\ events = <<>>
    /\ result = <<>>
    /\ fs0 = <<>>
    /\ stage_trace = <<>>
    /\ finals = <<>>

PkgInit ==
    /\ PipeUnused
    /\ IoUnused
    /\ ProgUnused
    /\ WebUnused
    /\ env \in Envs
    /\ pkg0 \in Packages
    /\ pkg = pkg0
    /\ job = NoJob
    /\ ppc = "ready"
    /\ todo = <<>>
    /\ rename_map = <<>>
    /\ changed = 0
    /\ rewritten = {}
    /\ asset_log = <<>>
    /\ stats = NoStats
    /\ out = NoPackage

\* the stage is called on the extracted package.  process_file lines 379-406
\* (the package is a ZIP), slim_xlsx lines 117-123, process_file_gui line 176
PkgStart ==
    /\ ppc = "ready"
    /\ \/ \E aggressive \in BOOLEAN, do_xml_cleanup \in BOOLEAN, force \in BOOLEAN :
            /\ job' = [tool |-> "precision", aggressive |-> aggressive,
                       do_xml_cleanup |-> do_xml_cleanup,
                       force_customxml_remove |-> force]
            /\ ppc' = "recompress"
       \/ /\ env.PIL_OK
          /\ job' = [NoJob EXCEPT !.tool = "image"]
          /\ ppc' = "slim"
       \/ /\ job' = [NoJob EXCEPT !.tool = "clean"]
          /\ ppc' = "clean"
    /\ UNCHANGED <<env, pkg0, pkg, todo, rename_map, changed, rewritten, asset_log,
                   stats, out>>
    /\ UNCHANGED not_pkg_vars

\* media_dir.iterdir(): the files of xl/media in the order the file system
\* lists them
Orders(S) ==
    {o \in [1..Cardinality(S) -> S] : \A i, j \in 1..Cardinality(S) : i # j => o[i] # o[j]}

\* what Pillow does with one file: Image.open or a transform raises, the
\* encoder raises (Image.save then removes the file it created), or the
\* encoder writes `size` bytes
Outcome(kind, size) == [kind |-> kind, size |-> size]

Outcomes ==
    {Outcome("decode_error", 0), Outcome("encode_error", 0)}
    \cup {Outcome("encoded", n) : n \in NewSizes}

\* the bytes an encoder writes for picture c
Encode(c, fmt, size, thumb) ==
    [img |-> c.img, size |-> size, alpha |-> c.alpha /\ fmt # "jpeg", fmt |-> fmt,
     thumb |-> c.thumb \/ thumb]

NoName == MediaName("", "")

Visit(media, res, new_name) == [media |-> media, result |-> res, new_name |-> new_name]

\* precision_plus lines 140-153
replace_if_smaller(media, orig, temp) ==
    IF ~Exists(media, temp)
    THEN Visit(media, "kept", NoName)
    ELSE IF media[temp].size < media[orig].size
         THEN Visit(RenameFile(Unlink(media, orig), temp, orig), "replaced", NoName)
         ELSE Visit(Unlink(media, temp), "kept", NoName)

\* precision_plus lines 155-178 without the test of has_alpha (159-160)
convert_ignoring_alpha(media, p, o) ==
    IF o.kind # "encoded"
    THEN Visit(media, o.kind, NoName)
    ELSE LET new_name == JpgOf(p)
             jpeg == Encode(media[p], "jpeg", o.size, TRUE)
         IN  IF jpeg.size < media[p].size
             THEN Visit(WriteFile(Unlink(media, p), new_name, jpeg), "renamed", new_name)
             ELSE Visit(media, "kept", NoName)

\* precision_plus lines 155-178
convert_png_to_jpg_with_rename_and_resize(media, p, o) ==
    IF o.kind = "decode_error"
    THEN Visit(media, "decode_error", NoName)
    ELSE IF media[p].alpha
    THEN Visit(media, "alpha", NoName)
    ELSE IF o.kind = "encode_error"
    THEN Visit(media, "encode_error", NoName)
    ELSE LET new_name == JpgOf(p)
             tmp_jpeg == TmpOf(new_name)
             m1 == WriteFile(media, tmp_jpeg, Encode(media[p], "jpeg", o.size, TRUE))
         IN  IF m1[tmp_jpeg].size < m1[p].size
             THEN LET m2 == Unlink(m1, p)
                      m3 == IF Exists(m2, new_name) THEN Unlink(m2, new_name) ELSE m2
                  IN  Visit(RenameFile(m3, tmp_jpeg, new_name), "renamed", new_name)
             ELSE Visit(Unlink(m1, tmp_jpeg), "kept", NoName)

\* lines 259-274 and 282-286: re-encode to <name>.tmp in the format of the
\* suffix, then _replace_if_smaller
reencode_in_place(media, p, fmt, thumb, o) ==
    IF o.kind # "encoded"
    THEN Visit(media, o.kind, NoName)
    ELSE LET tmp == TmpOf(p)
         IN  replace_if_smaller(WriteFile(media, tmp, Encode(media[p], fmt, o.size, thumb)),
                                p, tmp)

\* the PNG branch of the loop, lines 275-286, converting in safe mode too
png_branch_always_converts(media, p, aggressive, o) ==
    convert_png_to_jpg_with_rename_and_resize(media, p, o)

\* the PNG branch of the loop, lines 275-286
png_branch(media, p, aggressive, o) ==
    IF aggressive
    THEN convert_png_to_jpg_with_rename_and_resize(media, p, o)
    ELSE reencode_in_place(media, p, "png", FALSE, o)

\* one iteration of the loop, lines 255-290; an exception of the iteration
\* is caught at line 289 and the loop goes on
recompress_one(media, p, aggressive, o) ==
    IF ~Exists(media, p)
    THEN Visit(media, "skipped", NoName)
    ELSE IF Lower(p.ext) \in {".jpg", ".jpeg"}
    THEN reencode_in_place(media, p, "jpeg", aggressive, o)
    ELSE IF Lower(p.ext) = ".png"
    THEN png_branch(media, p, aggressive, o)
    ELSE Visit(media, "skipped", NoName)

\* recompress_images_with_sync lines 243-252: without Pillow, or without
\* an xl/media directory, it returns (0, {}) at once
RecompressBegin ==
    /\ ppc = "recompress"
    /\ IF ~env.PIL_OK \/ DOMAIN pkg.media = {}
       THEN /\ ppc' = "prune"
            /\ todo' = <<>>
       ELSE /\ ppc' = "media"
            /\ todo' \in Orders(DOMAIN pkg.media)
    /\ rename_map' = <<>>
    /\ changed' = 0
    /\ UNCHANGED <<env, pkg0, pkg, job, rewritten, asset_log, stats, out>>
    /\ UNCHANGED not_pkg_vars

Errors == {"decode_error", "encode_error"}

\* line 289: the exception of one file is logged and the loop goes on
loop_rest(v, rest) == rest

\* lines 278-280 without the assignment to rename_map
record_rename_never(rm, p, v) == rm

\* lines 278-280: if new_name: rename_map[p.name] = new_name
record_rename(rm, p, v) ==
    IF v.new_name # NoName
    THEN [k \in DOMAIN rm \cup {p} |-> IF k = p THEN v.new_name ELSE rm[k]]
    ELSE rm

Logged(p, media, v) ==
    [name |-> p, before |-> IF Exists(media, p) THEN media[p] ELSE Image(NoName, 0, FALSE, ""),
     result |-> v.result, new_name |-> v.new_name]

\* one iteration of the loop of recompress_images_with_sync, lines 254-290
RecompressAsset ==
    /\ ppc = "media"
    /\ todo # <<>>
    /\ \E o \in Outcomes :
         LET p == Head(todo)
             v == recompress_one(pkg.media, p, job.aggressive, o)
         IN  /\ pkg' = [pkg EXCEPT !.media = v.media]
             /\ rename_map' = record_rename(rename_map, p, v)
             /\ changed' = changed + (IF v.result \in {"replaced", "renamed"} THEN 1 ELSE 0)
             /\ asset_log' = Append(asset_log, Logged(p, pkg.media, v))
             /\ todo' = loop_rest(v, Tail(todo))
    /\ UNCHANGED <<env, pkg0, job, ppc, rewritten, stats, out>>
    /\ UNCHANGED not_pkg_vars

\* the prefixes p of the model for which (p + name).endswith("media/" + name)
EndsWithMedia(prefix) == prefix \in {"../media/", "/xl/media/", "media/"}

\* lines 180-200: every Relationship of every xl/**/_rels/*.rels; without
\* lxml the name etree is undefined and the NameError is swallowed at 198
update_rels_targets_for_media(refs, rm, lxml_ok) ==
    IF ~lxml_ok THEN refs
    ELSE { IF r.kind = "rel" /\ r.name \in DOMAIN rm /\ EndsWithMedia(r.prefix)
           THEN [r EXCEPT !.name = rm[r.name]] ELSE r : r \in refs }

\* lines 202-218 with the replacement made in both directions
update_vml_swapping_names(refs, rm) ==
    { IF r.kind = "vml" /\ r.name \in DOMAIN rm /\ r.prefix = "/xl/media/"
      THEN [r EXCEPT !.name = rm[r.name]]
      ELSE IF r.kind = "vml" /\ \E k \in DOMAIN rm : rm[k] = r.name
      THEN [r EXCEPT !.name = CHOOSE k \in DOMAIN rm : rm[k] = r.name]
      ELSE r : r \in refs }

\* lines 202-218: str.replace of "/xl/media/<old>" in every vmlDrawing*.vml;
\* without an xl/drawings directory or a vmlDrawing file nothing is done
update_vml_imagedata_sources(refs, rm) ==
    { IF r.kind = "vml" /\ r.name \in DOMAIN rm /\ r.prefix = "/xl/media/"
      THEN [r EXCEPT !.name = rm[r.name]] ELSE r : r \in refs }

\* lines 220-240: every Override whose PartName ends with "/xl/media/<old>";
\* without lxml the NameError is swallowed at 238
update_content_types_for_renamed(refs, rm, lxml_ok) ==
    IF ~lxml_ok THEN refs
    ELSE { IF r.kind = "override" /\ r.name \in DOMAIN rm /\ r.prefix = "/xl/media/"
           THEN [r EXCEPT !.name = rm[r.name]] ELSE r : r \in refs }

sync_references(refs, rm, lxml_ok) ==
    update_content_types_for_renamed(
        update_vml_imagedata_sources(
            update_rels_targets_for_media(refs, rm, lxml_ok), rm), rm, lxml_ok)

\* the parts a pass wrote back: those of which a reference changed
Rewritten(before, after) == {r.part : r \in before \ after}

\* lines 292-301: the three passes run only if rename_map is not empty
SyncReferences ==
    /\ ppc = "media"
    /\ todo = <<>>
    /\ IF DOMAIN rename_map # {}
       THEN LET refs == sync_references(pkg.refs, rename_map, env.LXML_OK)
            IN  /\ pkg' = [pkg EXCEPT !.refs = refs]
                /\ rewritten' = Rewritten(pkg.refs, refs)
       ELSE UNCHANGED <<pkg, rewritten>>
    /\ ppc' = "prune"
    /\ UNCHANGED <<env, pkg0, job, todo, rename_map, changed, asset_log, stats, out>>
    /\ UNCHANGED not_pkg_vars

\* lines 303-312
remove_calc_chain(parts) == parts \ {CalcChain}

\* lines 314-326: every *.bin of xl/printerSettings
remove_printer_settings(parts) == parts \ {PrinterSettings}

\* lines 328-334
remove_thumbnail(parts) == parts \ {Thumbnail}

\* lines 336-347: docProps/custom.xml
remove_docProps_core(parts) == parts \ {CustomProps}

\* lines 349-360: shutil.rmtree(unpacked_dir / "xl" / "customXml")
remove_customxml(parts) == parts \ {XlCustomXmlItem}

\* lines 408-420 with the test of do_xml_cleanup dropped
prune_always(parts, do_xml_cleanup) ==
    remove_docProps_core(remove_thumbnail(remove_printer_settings(remove_calc_chain(parts))))

\* lines 408-420
prune(parts, do_xml_cleanup) ==
    IF do_xml_cleanup
    THEN remove_docProps_core(remove_thumbnail(remove_printer_settings(remove_calc_chain(parts))))
    ELSE parts

\* lines 422-424
prune_customxml(parts, force_customxml_remove) ==
    IF force_customxml_remove THEN remove_customxml(parts) ELSE parts

\* process_file lines 408-424
Prune ==
    /\ ppc = "prune"
    /\ pkg' = [pkg EXCEPT !.parts = prune_customxml(prune(@, job.do_xml_cleanup),
                                                    job.force_customxml_remove)]
    /\ ppc' = "rezip"
    /\ UNCHANGED <<env, pkg0, job, todo, rename_map, changed, rewritten, asset_log,
                   stats, out>>
    /\ UNCHANGED not_pkg_vars

\* process_file lines 426-443: rezip_max_compress writes every file of the
\* scratch directory, and the archive is copied next to the input
Repack ==
    /\ ppc = "rezip"
    /\ out' = pkg
    /\ ppc' = "done"
    /\ UNCHANGED <<env, pkg0, pkg, job, todo, rename_map, changed, rewritten,
                   asset_log, stats>>
    /\ UNCHANGED not_pkg_vars

SUPPORTED_IMAGE_EXTS == {".jpg", ".jpeg", ".png", ".bmp", ".tif", ".tiff"}

\* excel_image_slimmer_gui_v3 lines 73-114: the file is rewritten in place
\* only by a strictly shorter encoding; any exception is logged as a warning
process_media_file(media, p, o) ==
    IF Lower(p.ext) \notin SUPPORTED_IMAGE_EXTS
    THEN Visit(media, "skipped", NoName)
    ELSE IF o.kind # "encoded"
    THEN Visit(media, o.kind, NoName)
    ELSE LET new == Encode(media[p], FormatOf(p), o.size, TRUE)
         IN  IF new.size < media[p].size
             THEN Visit(WriteFile(media, p, new), "replaced", NoName)
             ELSE Visit(media, "kept", NoName)

\* slim_xlsx lines 123-127 and 132-133
SlimBegin ==
    /\ ppc = "slim"
    /\ todo' \in Orders(DOMAIN pkg.media)
    /\ ppc' = "slim_media"
    /\ UNCHANGED <<env, pkg0, pkg, job, rename_map, changed, rewritten, asset_log,
                   stats, out>>
    /\ UNCHANGED not_pkg_vars

\* slim_xlsx lines 128-131: one file of xl/media
SlimAsset ==
    /\ ppc = "slim_media"
    /\ todo # <<>>
    /\ \E o \in Outcomes :
         LET p == Head(todo)
             v == process_media_file(pkg.media, p, o)
         IN  /\ pkg' = [pkg EXCEPT !.media = v.media]
             /\ asset_log' = Append(asset_log, Logged(p, pkg.media, v))
    /\ todo' = Tail(todo)
    /\ UNCHANGED <<env, pkg0, job, ppc, rename_map, changed, rewritten, stats, out>>
    /\ UNCHANGED not_pkg_vars

\* slim_xlsx lines 135-144
SlimRepack ==
    /\ ppc = "slim_media"
    /\ todo = <<>>
    /\ out' = pkg
    /\ ppc' = "done"
    /\ UNCHANGED <<env, pkg0, pkg, job, todo, rename_map, changed, rewritten,
                   asset_log, stats>>
    /\ UNCHANGED not_pkg_vars

\* the first element at or after i that has a closing tag </definedName>,
\* or 0: where the lazy ".*?</definedName>" of line 125 stops
NextClose(body, i) ==
    LET S == {j \in i..Len(body) : ~body[j].self_closing}
    IN  IF S = {} THEN 0 ELSE CHOOSE j \in S : \A k \in S : j <= k

\* re.finditer of line 125 over the body: a match starts at the next
\* "<definedName", whose tag "[^>]*>" also accepts when it ends in "/>", and
\* runs to the first "</definedName>" after it
RECURSIVE Chunks(_, _)
Chunks(body, i) ==
    IF i > Len(body) \/ NextClose(body, i) = 0
    THEN <<>>
    ELSE <<[from |-> i, to |-> NextClose(body, i)]>> \o Chunks(body, NextClose(body, i) + 1)

\* lines 127-130: the name is the first name="..." of the chunk
KeptChunks(body) ==
    SelectSeq(Chunks(body, 1), LAMBDA c : body[c.from].name \in KEEP_NAMES)

RECURSIVE JoinChunks(_, _)
JoinChunks(body, cs) ==
    IF cs = <<>> THEN <<>>
    ELSE SubSeq(body, Head(cs).from, Head(cs).to) \o JoinChunks(body, Tail(cs))

\* gui_clean_defined_names_desktop_date lines 111-145
surgical_filter_defined_names_text(names) ==
    IF ~names.block
    THEN [names |-> names, stats |-> [total |-> 0, kept |-> 0, removed |-> 0]]
    ELSE LET n_total == Len(names.body)
             kept_chunks == KeptChunks(names.body)
             kept == Len(kept_chunks)
             removed == IF n_total - kept > 0 THEN n_total - kept ELSE 0
         IN  [names |-> IF kept_chunks # <<>>
                        THEN Block(JoinChunks(names.body, kept_chunks))
                        ELSE NoBlock,
              stats |-> [total |-> n_total, kept |-> kept, removed |-> removed]]

\* process_file_gui lines 163-164 and 182-186: xl/workbook.xml is filtered
\* and every other entry of the archive is copied
CleanNames ==
    /\ ppc = "clean"
    /\ LET r == surgical_filter_defined_names_text(pkg.names)
       IN  /\ pkg' = [pkg EXCEPT !.names = r.names]
           /\ stats' = r.stats
           /\ out' = [pkg EXCEPT !.names = r.names]
    /\ ppc' = "done"
    /\ UNCHANGED <<env, pkg0, job, todo, rename_map, changed, rewritten, asset_log>>
    /\ UNCHANGED not_pkg_vars

PkgNext ==
    \/ PkgStart
    \/ RecompressBegin
    \/ RecompressAsset
    \/ SyncReferences
    \/ Prune
    \/ Repack
    \/ SlimBegin
    \/ SlimAsset
    \/ SlimRepack
    \/ CleanNames

PkgSpec == PkgInit /\ [][PkgNext]_vars

-----------------------------------------------------------------------------
(* Vocabulary of the package properties                                     *)

MediaStage == job.tool \in {"precision", "image"}
Done(tool) == ppc = "done" /\ job.tool = tool
In0 == DOMAIN pkg0.media
InOut == DOMAIN out.media
Entry(n) == CHOOSE i \in DOMAIN asset_log : asset_log[i].name = n
Visited(n) == \E i \in DOMAIN asset_log : asset_log[i].name = n
\* recompress_images_with_sync has returned
Synced == job.tool = "precision" /\ ppc \in {"prune", "rezip", "done"}
\* the manifest of package q declares a content type for media file n
Typed(q, n) ==
    \/ Lower(n.ext) \in q.defaults
    \/ \E r \in q.refs : r.kind = "override" /\ r.name = n
\* the entries of a definedNames body whose name is in the allow-list
AllowedEntries(body) == SelectSeq(body, LAMBDA e : e.name \in KEEP_NAMES)

-----------------------------------------------------------------------------
(* C11: never-grow.  When the precision stage or the image stage has       *)
(* repacked, every media file of the input is in one of three cases: it is *)
(* in the output under its name with its original bytes; it is there with  *)
(* strictly fewer bytes; or it is gone and the file the RenameMap names    *)
(* for it has strictly fewer bytes.  So no file of xl/media is longer in   *)
(* the output than it was in the input.                                    *)
C11_NeverGrow ==
    (ppc = "done" /\ MediaStage) =>
        \A n \in In0 :
            \/ n \in InOut /\ out.media[n] = pkg0.media[n]
            \/ n \in InOut /\ out.media[n].size < pkg0.media[n].size
            \/ /\ n \notin InOut
               /\ n \in DOMAIN rename_map
               /\ rename_map[n] \in InOut
               /\ out.media[rename_map[n]].size < pkg0.media[n].size

-----------------------------------------------------------------------------
(* C12: rename-closure.  Once recompress_images_with_sync has returned a   *)
(* RenameMap that is not empty, no relationship target, no legacy-drawing  *)
(* image source and no manifest override of the package names a key of the *)
(* RenameMap any more.                                                     *)
C12_RenameClosure ==
    (Synced /\ DOMAIN rename_map # {}) =>
        \A old \in DOMAIN rename_map : \A r \in pkg.refs : r.name # old

-----------------------------------------------------------------------------
-----------------------------------------------------------------------------
-----------------------------------------------------------------------------
(* C15: in aggressive mode a picture with an alpha channel or transparency *)
(* is never format-converted: its file stays in xl/media under the same    *)
(* name, it is no key of the RenameMap, and the file still holds the same  *)
(* picture, with its alpha, in the same format and in no more bytes.       *)
C15_AlphaNeverConverted ==
    (job.tool = "precision" /\ job.aggressive) =>
        \A n \in In0 :
            pkg0.media[n].alpha =>
                /\ n \in DOMAIN pkg.media
                /\ n \notin DOMAIN rename_map
                /\ pkg.media[n].img = n
                /\ pkg.media[n].alpha
                /\ pkg.media[n].fmt = pkg0.media[n].fmt
                /\ pkg.media[n].size <= pkg0.media[n].size

\* aggressive mode has repacked a package with a transparent PNG, which it
\* opened, and an opaque PNG, which it converted
C15_Witness ==
    /\ Done("precision")
    /\ job.aggressive
    /\ In0 = {Png1, PNG2}
    /\ pkg0.media[Png1].alpha
    /\ Visited(Png1) /\ asset_log[Entry(Png1)].result = "alpha"
    /\ DOMAIN rename_map = {PNG2}

-----------------------------------------------------------------------------
(* C16: a decode or encode error on one media file never aborts the        *)
(* precision stage.  When the stage has repacked, every file that was in   *)
(* xl/media has been visited, and every file whose visit ended in an error *)
(* is in the output under its original name with its original bytes.       *)
C16_FailureIsLocal ==
    (Done("precision") /\ env.PIL_OK) =>
        /\ \A n \in In0 : Visited(n)
        /\ \A i \in DOMAIN asset_log :
               asset_log[i].result \in Errors =>
                   /\ asset_log[i].name \in InOut
                   /\ out.media[asset_log[i].name] = pkg0.media[asset_log[i].name]

-----------------------------------------------------------------------------
(* C17: the four safe pruning operations run exactly when do_xml_cleanup   *)
(* is set, whatever aggressive is.  When the precision stage has repacked  *)
(* with do_xml_cleanup, the output has no calcChain part, no printer       *)
(* settings, no thumbnail and no custom document properties; without it,   *)
(* the output has each of these parts that the input had.                  *)
C17_PruningFollowsFlag ==
    Done("precision") =>
        /\ job.do_xml_cleanup => out.parts \cap PrunableParts = {}
        /\ ~job.do_xml_cleanup => out.parts \cap PrunableParts = pkg0.parts \cap PrunableParts

\* an aggressive run without do_xml_cleanup has repacked a package that had
\* a calcChain part, after it converted a PNG
C17_Witness ==
    /\ Done("precision")
    /\ job.aggressive
    /\ ~job.do_xml_cleanup
    /\ CalcChain \in pkg0.parts
    /\ DOMAIN rename_map # {}

\* a safe-mode run with do_xml_cleanup has repacked a package that had a
\* calcChain part
C17_WitnessPruned ==
    /\ Done("precision")
    /\ ~job.aggressive
    /\ job.do_xml_cleanup
    /\ CalcChain \in pkg0.parts
    /\ CalcChain \notin out.parts

-----------------------------------------------------------------------------
(* C18: the custom-XML parts are deleted exactly behind the opt-in.  When  *)
(* the precision stage has repacked with force_customxml_remove, the       *)
(* output has no custom-XML part; without it, the output has every         *)
(* custom-XML part of the input, whatever aggressive and do_xml_cleanup    *)
(* are.                                                                    *)
C18_CustomXmlOptIn ==
    Done("precision") =>
        /\ job.force_customxml_remove => out.parts \cap CustomXmlParts = {}
        /\ ~job.force_customxml_remove =>
               out.parts \cap CustomXmlParts = pkg0.parts \cap CustomXmlParts

-----------------------------------------------------------------------------
(* C19: defined-names filtering.  When the name-cleanup stage has written  *)
(* its output, the definedNames block holds exactly the entries of the     *)
(* input whose name is in KEEP_NAMES, in their original order and in       *)
(* whatever form they were written, the block is gone when no entry is     *)
(* kept, and the statistics are the number of entries, the number kept and *)
(* their difference.                                                       *)
C19_DefinedNamesFilter ==
    Done("clean") =>
        LET body0 == pkg0.names.body
            expected == AllowedEntries(body0)
        IN  /\ out.names = IF expected # <<>> THEN Block(expected) ELSE NoBlock
            /\ stats.total = Len(body0)
            /\ stats.kept = Len(expected)
            /\ stats.removed = Len(body0) - Len(expected)
            /\ stats.total = stats.kept + stats.removed

-----------------------------------------------------------------------------
(* The pivot-cache step of excel_slimmer_gui, lines 323-343: without lxml  *)
(* it returns 0; otherwise every pivotCacheDefinition whose saveData is    *)
(* not "0" gets saveData = "0" and is counted.  process_file of            *)
(* excel_slimmer_precision_plus, the one the pipeline imports, has no call *)
(* of it: Prune is followed by Repack.                                     *)
disable_pivot_save_data(pivot, lxml_ok) ==
    IF ~lxml_ok
    THEN [pivot |-> pivot, changed |-> 0]
    ELSE [pivot |-> [p \in DOMAIN pivot |-> "0"],
          changed |-> Cardinality({p \in DOMAIN pivot : pivot[p] # "0"})]

(* C20: when the precision stage has repacked, every pivotCacheDefinition  *)
(* part of the output has saveData = "0", and the pivot-cache step applied *)
(* to the output once more changes nothing and reports 0.                  *)
C20_PivotSaveDataOff ==
    Done("precision") =>
        /\ \A p \in DOMAIN out.pivot : out.pivot[p] = "0"
        /\ disable_pivot_save_data(out.pivot, env.LXML_OK) =
               [pivot |-> out.pivot, changed |-> 0]

-----------------------------------------------------------------------------
(* The stages one file-system call at a time.  A file is a directory and   *)
(* a name; the directories are the scratch directory of the stage          *)
(* (tempfile.mkdtemp / TemporaryDirectory), the directory of the input and *)
(* the timestamp folder of the name-cleanup stage.  An archive on the disk *)
(* is whole or, when the write of it was interrupted, partial.             *)

File(dir, name) == [dir |-> dir, name |-> name]

InputFile == File("beside", "input")
ScratchDir == File("scratch", ".")
Unpacked == File("scratch", "unpacked")

\* shutil.rmtree(tmpdir) / TemporaryDirectory.__exit__
Rmtree(d) == [f \in {g \in DOMAIN d : g.dir # "scratch"} |-> d[f]]

\* the calls of the three stage functions.  damaged: the archive opens and
\* xl/workbook.xml can be read, but another member cannot (bad CRC);
\* stale: the path of the stage's output already exists
StageCall(fn, damaged, no_backup, stale) ==
    [fn |-> fn, damaged |-> damaged, no_backup |-> no_backup, stale |-> stale]

StageCalls ==
    {StageCall("slim_xlsx", d, FALSE, FALSE) : d \in BOOLEAN}
    \cup {StageCall("process_file", d, nb, FALSE) : d \in BOOLEAN, nb \in BOOLEAN}
    \cup {StageCall("process_file_gui", d, FALSE, st) : d \in BOOLEAN, st \in BOOLEAN}

Ended == cpc \in {"returned", "raised"}
StageEnded == Ended /\ call \in StageCalls

\* a write to the disk succeeds or raises OSError after part of it
WriteOutcomes == {"written", "OSError"}

Written(w) == IF w = "written" THEN "whole" ELSE "partial"
Raises(w) == IF w = "written" THEN "" ELSE w

\* ---- slim_xlsx, excel_image_slimmer_gui_v3 lines 116-146 ----

\* line 117
IoSlimMkdtemp ==
    /\ cpc = "start"
    /\ call.fn = "slim_xlsx"
    /\ disk' = WriteFile(disk, ScratchDir, "dir")
    /\ cpc' = "slim_extract"
    /\ UNCHANGED <<call, exc, ret>>
    /\ UNCHANGED not_io_vars

\* lines 121-122: extractall raises at the member that cannot be read
IoSlimExtract ==
    /\ cpc = "slim_extract"
    /\ IF call.damaged
       THEN /\ disk' = WriteFile(disk, Unpacked, "partial")
            /\ exc' = "BadZipFile"
            /\ cpc' = "slim_finally"
       ELSE /\ disk' = WriteFile(disk, Unpacked, "whole")
            /\ exc' = ""
            /\ cpc' = "slim_media"
    /\ UNCHANGED <<call, ret>>
    /\ UNCHANGED not_io_vars

\* lines 123-133: process_media_file catches what it raises; the log is
\* written when there is something to report
IoSlimMedia ==
    /\ cpc = "slim_media"
    /\ \E wrote_log \in BOOLEAN :
         disk' = IF wrote_log THEN WriteFile(disk, File("beside", "log"), "whole") ELSE disk
    /\ cpc' = "slim_repack"
    /\ UNCHANGED <<call, exc, ret>>
    /\ UNCHANGED not_io_vars

\* lines 135-144: the archive is written at output_path itself
IoSlimRepack ==
    /\ cpc = "slim_repack"
    /\ \E w \in WriteOutcomes :
         /\ disk' = WriteFile(disk, File("beside", "output"), Written(w))
         /\ exc' = Raises(w)
    /\ cpc' = "slim_finally"
    /\ UNCHANGED <<call, ret>>
    /\ UNCHANGED not_io_vars

\* lines 145-146
IoSlimFinally ==
    /\ cpc = "slim_finally"
    /\ disk' = Rmtree(disk)
    /\ cpc' = IF exc = "" THEN "returned" ELSE "raised"
    /\ UNCHANGED <<call, exc, ret>>
    /\ UNCHANGED not_io_vars

\* ---- process_file, excel_slimmer_precision_plus lines 379-449 ----

\* lines 398-404: make_backup inside the outer try
IoPfBackup ==
    /\ cpc = "start"
    /\ call.fn = "process_file"
    /\ IF call.no_backup
       THEN /\ cpc' = "pf_unzip"
            /\ UNCHANGED <<disk, exc>>
       ELSE \E w \in WriteOutcomes :
              /\ disk' = WriteFile(disk, File("beside", "backup"), Written(w))
              /\ exc' = Raises(w)
              /\ cpc' = IF w = "written" THEN "pf_unzip" ELSE "pf_except"
    /\ UNCHANGED <<call, ret>>
    /\ UNCHANGED not_io_vars

\* lines 406-408 and 133-138: TemporaryDirectory() and unzip_to_temp
IoPfUnzip ==
    /\ cpc = "pf_unzip"
    /\ IF call.damaged
       THEN /\ disk' = WriteFile(WriteFile(disk, ScratchDir, "dir"), Unpacked, "partial")
            /\ exc' = "BadZipFile"
            /\ cpc' = "pf_exit_with"
       ELSE /\ disk' = WriteFile(WriteFile(disk, ScratchDir, "dir"), Unpacked, "whole")
            /\ exc' = ""
            /\ cpc' = "pf_rezip"
    /\ UNCHANGED <<call, ret>>
    /\ UNCHANGED not_io_vars

\* lines 409-427: the steps on the unpacked package, which catch what they
\* raise, and rezip_max_compress to tempdir / "slimmed.xlsx"
IoPfRezip ==
    /\ cpc = "pf_rezip"
    /\ \E w \in WriteOutcomes :
         /\ disk' = WriteFile(disk, File("scratch", "slimmed"), Written(w))
         /\ exc' = Raises(w)
         /\ cpc' = IF w = "written" THEN "pf_copy" ELSE "pf_exit_with"
    /\ UNCHANGED <<call, ret>>
    /\ UNCHANGED not_io_vars

\* lines 429-443: shutil.copy2(out_tmp, out_path)
IoPfCopy ==
    /\ cpc = "pf_copy"
    /\ \E w \in WriteOutcomes :
         /\ disk' = WriteFile(disk, File("beside", "output"), Written(w))
         /\ exc' = Raises(w)
    /\ cpc' = "pf_exit_with"
    /\ UNCHANGED <<call, ret>>
    /\ UNCHANGED not_io_vars

\* the end of the with block of line 406
IoPfExitWith ==
    /\ cpc = "pf_exit_with"
    /\ disk' = Rmtree(disk)
    /\ cpc' = IF exc = "" THEN "returned" ELSE "pf_except"
    /\ UNCHANGED <<call, exc, ret>>
    /\ UNCHANGED not_io_vars

\* lines 445-449: the exception is logged and process_file returns
IoPfExcept ==
    /\ cpc = "pf_except"
    /\ exc' = ""
    /\ cpc' = "returned"
    /\ UNCHANGED <<call, disk, ret>>
    /\ UNCHANGED not_io_vars

\* ---- process_file_gui, gui_clean_defined_names_desktop_date 157-188 ----

\* lines 163-178: workbook.xml is read and filtered, the timestamp folder
\* is made and the input is copied to backup_path
IoGuiBackup ==
    /\ cpc = "start"
    /\ call.fn = "process_file_gui"
    /\ disk' = WriteFile(disk, File("ts", "backup"), "whole")
    /\ cpc' = "gui_rewrite"
    /\ UNCHANGED <<call, exc, ret>>
    /\ UNCHANGED not_io_vars

\* lines 180-181 and 147-155: every member is read and written to
\* cleaned_path + ".tmp"; zin.read raises at the member that cannot be read,
\* and nothing catches it
IoGuiRewrite ==
    /\ cpc = "gui_rewrite"
    /\ IF call.damaged
       THEN /\ disk' = WriteFile(disk, File("ts", "tmp_out"), "partial")
            /\ exc' = "BadZipFile"
            /\ cpc' = "raised"
       ELSE \E w \in WriteOutcomes :
              /\ disk' = WriteFile(disk, File("ts", "tmp_out"), Written(w))
              /\ exc' = Raises(w)
              /\ cpc' = IF w = "written" THEN "gui_replace" ELSE "raised"
    /\ UNCHANGED <<call, ret>>
    /\ UNCHANGED not_io_vars

\* lines 182-186
IoGuiReplace ==
    /\ cpc = "gui_replace"
    /\ LET cleaned == File("ts", "output")
           d1 == IF Exists(disk, cleaned) THEN Unlink(disk, cleaned) ELSE disk
       IN  disk' = RenameFile(d1, File("ts", "tmp_out"), cleaned)
    /\ cpc' = "returned"
    /\ UNCHANGED <<call, exc, ret>>
    /\ UNCHANGED not_io_vars

IoStageNext ==
    \/ IoSlimMkdtemp
    \/ IoSlimExtract
    \/ IoSlimMedia
    \/ IoSlimRepack
    \/ IoSlimFinally
    \/ IoPfBackup
    \/ IoPfUnzip
    \/ IoPfRezip
    \/ IoPfCopy
    \/ IoPfExitWith
    \/ IoPfExcept
    \/ IoGuiBackup
    \/ IoGuiRewrite
    \/ IoGuiReplace

\* the disk when a stage is called: the input and, for the name-cleanup
\* stage, possibly a file at cleaned_path (the other two stages look for a
\* free name first: run_image_slim lines 83-87, get_new_output_path)
StageDisk(c) ==
    LET d0 == WriteFile(<<>>, InputFile, "whole")
    IN  IF c.stale THEN WriteFile(d0, File("ts", "output"), "whole") ELSE d0

\* ---- file replacement, excel_slimmer_precision_plus lines 140-178 ----

Asset == File("media", "asset")     \* orig of _replace_if_smaller, p of the conversion
Temp == File("media", "temp")       \* <name>.tmp
Final == File("media", "final")     \* p.stem + ".jpg"

Original(size) == [who |-> "original", size |-> size]
Replacement(size) == [who |-> "replacement", size |-> size]
Other == [who |-> "other", size |-> 1]

ReplCall(fn, orig_size, temp_size, alpha, taken) ==
    [fn |-> fn, orig_size |-> orig_size, temp_size |-> temp_size, alpha |-> alpha,
     taken |-> taken]

\* _replace_if_smaller is called when im.save(tmp) has returned (lines 267,
\* 272, 285); the conversion is called on a PNG, with or without
\* transparency, and <stem>.jpg may be the name of another media file
ReplCalls ==
    {ReplCall("_replace_if_smaller", a, b, FALSE, FALSE) : a \in 1..MaxSize, b \in 1..MaxSize}
    \cup {ReplCall("convert_png_to_jpg_with_rename_and_resize", a, b, al, tk) :
              a \in 1..MaxSize, b \in 1..MaxSize, al \in BOOLEAN, tk \in BOOLEAN}

ReplDisk(c) ==
    LET d0 == WriteFile(<<>>, Asset, Original(c.orig_size))
    IN  IF c.fn = "_replace_if_smaller"
        THEN WriteFile(d0, Temp, Replacement(c.temp_size))
        ELSE IF c.taken THEN WriteFile(d0, Final, Other) ELSE d0

\* unlink and rename succeed or raise
FsOutcomes == {"ok", "PermissionError"}

\* lines 142-144 and 147-148
IoRisCompare ==
    /\ cpc = "start"
    /\ call.fn = "_replace_if_smaller"
    /\ cpc' = IF disk[Temp].size < disk[Asset].size THEN "ris_unlink_orig"
              ELSE "ris_unlink_temp"
    /\ UNCHANGED <<call, disk, exc, ret>>
    /\ UNCHANGED not_io_vars

\* line 145: orig.unlink(missing_ok=True)
IoRisUnlinkOrig ==
    /\ cpc = "ris_unlink_orig"
    /\ \E o \in FsOutcomes :
         IF o = "ok"
         THEN /\ disk' = Unlink(disk, Asset)
              /\ cpc' = "ris_rename"
              /\ exc' = ""
         ELSE /\ disk' = disk
              /\ cpc' = "ris_except"
              /\ exc' = o
    /\ UNCHANGED <<call, ret>>
    /\ UNCHANGED not_io_vars

\* lines 146-147: temp.rename(orig); return True
IoRisRename ==
    /\ cpc = "ris_rename"
    /\ \E o \in FsOutcomes :
         IF o = "ok"
         THEN /\ disk' = RenameFile(disk, Temp, Asset)
              /\ cpc' = "returned"
              /\ exc' = ""
              /\ ret' = "True"
         ELSE /\ disk' = disk
              /\ cpc' = "ris_except"
              /\ exc' = o
              /\ ret' = ret
    /\ UNCHANGED call
    /\ UNCHANGED not_io_vars

\* lines 149-150: temp.unlink(missing_ok=True); return False
IoRisUnlinkTemp ==
    /\ cpc = "ris_unlink_temp"
    /\ \E o \in FsOutcomes :
         IF o = "ok"
         THEN /\ disk' = Unlink(disk, Temp)
              /\ cpc' = "returned"
              /\ exc' = ""
              /\ ret' = "False"
         ELSE /\ disk' = disk
              /\ cpc' = "ris_except"
              /\ exc' = o
              /\ ret' = ret
    /\ UNCHANGED call
    /\ UNCHANGED not_io_vars

\* lines 151-153: except Exception: temp.unlink(missing_ok=True); return
\* False.  When this unlink raises too, the exception leaves the function
IoRisExcept ==
    /\ cpc = "ris_except"
    /\ \E o \in FsOutcomes :
         IF o = "ok"
         THEN /\ disk' = IF Exists(disk, Temp) THEN Unlink(disk, Temp) ELSE disk
              /\ cpc' = "returned"
              /\ exc' = ""
              /\ ret' = "False"
         ELSE /\ disk' = disk
              /\ cpc' = "raised"
              /\ exc' = o
              /\ ret' = ret
    /\ UNCHANGED call
    /\ UNCHANGED not_io_vars

\* lines 156-160 and 177-178: Image.open raises (caught at 177), or the
\* picture has transparency
IoCvOpen ==
    /\ cpc = "start"
    /\ call.fn = "convert_png_to_jpg_with_rename_and_resize"
    /\ \E o \in {"opened", "decode_error"} :
         IF o = "decode_error" \/ call.alpha
         THEN /\ cpc' = "returned"
              /\ ret' = "None"
         ELSE /\ cpc' = "cv_save"
              /\ ret' = ret
    /\ UNCHANGED <<call, disk, exc>>
    /\ UNCHANGED not_io_vars

\* lines 161-165: rgb.save(tmp_jpeg); when the encoder raises, Image.save
\* removes the file it created and the exception is caught at 177
IoCvSave ==
    /\ cpc = "cv_save"
    /\ \E w \in WriteOutcomes :
         IF w = "written"
         THEN /\ disk' = WriteFile(disk, Temp, Replacement(call.temp_size))
              /\ cpc' = "cv_compare"
              /\ ret' = ret
         ELSE /\ disk' = disk
              /\ cpc' = "returned"
              /\ ret' = "None"
    /\ UNCHANGED <<call, exc>>
    /\ UNCHANGED not_io_vars

\* lines 166 and 173
IoCvCompare ==
    /\ cpc = "cv_compare"
    /\ cpc' = IF disk[Temp].size < disk[Asset].size THEN "cv_unlink_p" ELSE "cv_unlink_tmp"
    /\ UNCHANGED <<call, disk, exc, ret>>
    /\ UNCHANGED not_io_vars

\* line 167: p.unlink(missing_ok=True); what it raises is caught at 177
IoCvUnlinkP ==
    /\ cpc = "cv_unlink_p"
    /\ \E o \in FsOutcomes :
         IF o = "ok"
         THEN /\ disk' = Unlink(disk, Asset)
              /\ cpc' = "cv_unlink_final"
              /\ ret' = ret
         ELSE /\ disk' = disk
              /\ cpc' = "returned"
              /\ ret' = "None"
    /\ UNCHANGED <<call, exc>>
    /\ UNCHANGED not_io_vars

\* lines 168-170: if final.exists(): final.unlink(missing_ok=True)
IoCvUnlinkFinal ==
    /\ cpc = "cv_unlink_final"
    /\ IF ~Exists(disk, Final)
       THEN /\ cpc' = "cv_rename"
            /\ UNCHANGED <<disk, ret>>
       ELSE \E o \in FsOutcomes :
              IF o = "ok"
              THEN /\ disk' = Unlink(disk, Final)
                   /\ cpc' = "cv_rename"
                   /\ ret' = ret
              ELSE /\ disk' = disk
                   /\ cpc' = "returned"
                   /\ ret' = "None"
    /\ UNCHANGED <<call, exc>>
    /\ UNCHANGED not_io_vars

\* lines 171-172: tmp_jpeg.rename(final); return new_name
IoCvRename ==
    /\ cpc = "cv_rename"
    /\ \E o \in FsOutcomes :
         IF o = "ok"
         THEN /\ disk' = RenameFile(disk, Temp, Final)
              /\ ret' = "new_name"
         ELSE /\ disk' = disk
              /\ ret' = "None"
    /\ cpc' = "returned"
    /\ UNCHANGED <<call, exc>>
    /\ UNCHANGED not_io_vars

\* lines 174-175: tmp_jpeg.unlink(missing_ok=True); return None
IoCvUnlinkTmp ==
    /\ cpc = "cv_unlink_tmp"
    /\ \E o \in FsOutcomes :
         disk' = IF o = "ok" THEN Unlink(disk, Temp) ELSE disk
    /\ ret' = "None"
    /\ cpc' = "returned"
    /\ UNCHANGED <<call, exc>>
    /\ UNCHANGED not_io_vars

IoReplNext ==
    \/ IoRisCompare
    \/ IoRisUnlinkOrig
    \/ IoRisRename
    \/ IoRisUnlinkTemp
    \/ IoRisExcept
    \/ IoCvOpen
    \/ IoCvSave
    \/ IoCvCompare
    \/ IoCvUnlinkP
    \/ IoCvUnlinkFinal
    \/ IoCvRename
    \/ IoCvUnlinkTmp

ReplEnded == Ended /\ call \in ReplCalls

\* the name the asset has when the call has done its work
FinalName == IF call.fn = "_replace_if_smaller" THEN Asset ELSE Final

IoInit ==
    /\ PipeUnused
    /\ PkgUnused
    /\ ProgUnused
    /\ WebUnused
    /\ call \in StageCalls \cup ReplCalls
    /\ cpc = "start"
    /\ disk = IF call \in StageCalls THEN StageDisk(call) ELSE ReplDisk(call)
    /\ exc = ""
    /\ ret = "none"

IoNext ==
    \/ IoStageNext
    \/ IoReplNext

IoSpec == IoInit /\ [][IoNext]_vars

-----------------------------------------------------------------------------
(* C21: every scratch workspace is removed on every exit path.  When       *)
(* slim_xlsx, process_file or process_file_gui has returned or raised,     *)
(* nothing is left of its scratch directory, the temporary output of the   *)
(* name-cleanup rewrite does not exist, and no archive that was written    *)
(* only in part is left on the disk.                                       *)
C21_WorkspaceRemoved ==
    StageEnded =>
        \A f \in DOMAIN disk :
            /\ f.dir # "scratch"
            /\ f # File("ts", "tmp_out")
            /\ disk[f] # "partial"

-----------------------------------------------------------------------------
(* C23: file replacement never leaves zero or duplicate files.  When       *)
(* _replace_if_smaller or the PNG-to-JPEG conversion has ended, also after *)
(* an unlink or a rename that raised, the temporary file is gone and       *)
(* exactly one of the two is on the disk: the original under its name, or  *)
(* the replacement under the asset's final name.                           *)
C23_OneFileAlways ==
    ReplEnded =>
        /\ ~Exists(disk, Temp)
        /\ \/ /\ Exists(disk, Asset)
              /\ disk[Asset].who = "original"
              /\ ~(Exists(disk, FinalName) /\ disk[FinalName].who = "replacement")
           \/ /\ Exists(disk, FinalName)
              /\ disk[FinalName].who = "replacement"
              /\ FinalName # Asset => ~Exists(disk, Asset)

-----------------------------------------------------------------------------
(* The web endpoint: slim_excel of web_app/main.py, lines 34-114.  The     *)
(* handler saves the upload in a temporary directory of its own, calls     *)
(* run_pipeline_core there (the actions of the orchestrator above), and    *)
(* returns a FileResponse or raises an HTTPException; the server sends the *)
(* response after the handler has returned.                                *)

\* tempfile.TemporaryDirectory() of line 54
TmpDir == <<"tmp", 0>>

NoResponse == [kind |-> "none", path |-> NoPath]
HTTPException(status) == [kind |-> status, path |-> NoPath]
FileResponse(path) == [kind |-> "file", path |-> path]

\* TemporaryDirectory.__exit__: the directory and everything in it
CleanupTmp(f) == [p \in {q \in DOMAIN f : q.dir # TmpDir} |-> f[p]]

WebInit ==
    /\ fs = <<>>
    /\ installed \in InstalledChoices
    /\ settings \in SettingsChoices
    /\ now = 0
    /\ runs = 0
    /\ pc = "idle"
    /\ args = [start_path |-> NoPath, use_clean |-> FALSE, use_image |-> FALSE,
               use_precision |-> FALSE]
    /\ steps = <<>>
    /\ index = 0
    /\ current = NoPath
    /\ intermediate_files = <<>>
    /\ log_files = <<>>
    /\ backup_files = <<>>
    /\ events = <<>>
    /\ result = <<>>
    /\ fs0 = fs
    /\ stage_trace = <<>>
    /\ finals = <<>>
    /\ PkgUnused
    /\ IoUnused
    /\ ProgUnused
    /\ wpc = "idle"
    /\ response = NoResponse
    /\ sent = <<>>

\* lines 46-51: a file name with another suffix is refused with HTTP 400
WebReject ==
    /\ wpc \in {"idle", "sent"}
    /\ runs < MaxRuns
    /\ \E e \in UserExts :
         /\ e \notin SupportedExts
         /\ args' = [start_path |-> MkPath(TmpDir, UserStem, e), use_clean |-> FALSE,
                     use_image |-> FALSE, use_precision |-> FALSE]
    /\ response' = HTTPException("400")
    /\ wpc' = "responded"
    /\ runs' = runs + 1
    /\ pc' = "rejected"
    /\ steps' = <<>>
    /\ index' = 0
    /\ current' = NoPath
    /\ intermediate_files' = <<>>
    /\ log_files' = <<>>
    /\ backup_files' = <<>>
    /\ events' = <<>>
    /\ result' = <<>>
    /\ fs0' = fs
    /\ stage_trace' = <<>>
    /\ UNCHANGED <<fs, installed, settings, now, finals, sent>>
    /\ UNCHANGED not_web_vars

\* lines 54-98: the temporary directory is made, the upload is saved in it
\* and run_pipeline_core is called with the form's flags (its lines 166-180)
WebReceive ==
    /\ wpc \in {"idle", "sent"}
    /\ runs < MaxRuns
    /\ \E e \in SupportedExts, z \in BOOLEAN, use_clean \in BOOLEAN, use_image \in BOOLEAN,
          use_precision \in BOOLEAN :
         LET in_path == MkPath(TmpDir, UserStem, e)
         IN  /\ fs' = WriteFile(fs, in_path, Content(z, <<"user">>))
             /\ args' = [start_path |-> in_path, use_clean |-> use_clean,
                         use_image |-> use_image, use_precision |-> use_precision]
             /\ steps' = StepsOf(use_clean, use_image, use_precision)
             /\ current' = in_path
             /\ pc' = IF StepsOf(use_clean, use_image, use_precision) = <<>>
                      THEN "rename" ELSE "stage"
    /\ response' = NoResponse
    /\ wpc' = "running"
    /\ runs' = runs + 1
    /\ index' = 1
    /\ intermediate_files' = <<>>
    /\ log_files' = <<>>
    /\ backup_files' = <<>>
    /\ events' = <<Ev("log", "start", NoPct)>>
    /\ result' = <<>>
    /\ fs0' = fs
    /\ stage_trace' = <<>>
    /\ UNCHANGED <<installed, settings, now, finals, sent>>
    /\ UNCHANGED not_web_vars

\* lines 102-114: error_message is set when show_error was called,
\* result_path when on_finished was called
respond(f, failed, res) ==
    IF failed THEN HTTPException("500")
    ELSE IF res = <<>> \/ ~Exists(f, res[Len(res)]) THEN HTTPException("500")
    ELSE FileResponse(res[Len(res)])

\* lines 102-114 and the end of the with block of line 54: as the handler
\* returns or raises, the temporary directory is removed
WebRespond ==
    /\ wpc = "running"
    /\ pc \in {"done", "failed"}
    /\ response' = respond(fs, \E i \in DOMAIN events : events[i].cb = "show_error", result)
    /\ fs' = CleanupTmp(fs)
    /\ wpc' = "responded"
    /\ UNCHANGED <<installed, settings, now, runs, pc, args, steps, index, current,
                   intermediate_files, log_files, backup_files, events, result, fs0,
                   stage_trace, finals, sent>>
    /\ UNCHANGED not_web_vars

\* the server sends the response: an HTTPException as its status, a
\* FileResponse by opening the file at its path, which fails when there is
\* no file
WebSend ==
    /\ wpc = "responded"
    /\ sent' = Append(sent, IF response.kind # "file" THEN response.kind
                            ELSE IF Exists(fs, response.path) THEN "file" ELSE "error")
    /\ wpc' = "sent"
    /\ UNCHANGED response
    /\ UNCHANGED pipe_vars
    /\ UNCHANGED not_web_vars

WebNext ==
    \/ WebReject
    \/ WebReceive
    \/ StageClean
    \/ StageImage
    \/ StagePrecision
    \/ FinalRename
    \/ MoveToOutputDir
    \/ DeleteBackups
    \/ Cleanup
    \/ Finish
    \/ WebRespond
    \/ WebSend

WebSpec == WebInit /\ [][WebNext]_vars

\* the request has been answered
Answered == wpc = "sent"
Flags == <<args.use_clean, args.use_image, args.use_precision>>

-----------------------------------------------------------------------------
(* C22: the endpoint leaves nothing behind.  When a request has been       *)
(* answered, every file on the server's disk was there before the request: *)
(* the upload, the outputs of the stages, the backups, the logs and the    *)
(* final result are gone, whatever the stage flags were.                   *)
C22_NothingRemains ==
    Answered => DOMAIN fs \subseteq DOMAIN fs0

-----------------------------------------------------------------------------
C24_WitnessTolerant ==
    /\ Done("precision")
    /\ DOMAIN rename_map # {}
    /\ ~env.LXML_OK
    /\ pkg0.defaults # {}
    /\ rewritten = {}

------------------------------------------------------------------------\* the index of the last call of callback cb
Last(cb) == CHOOSE i \in DOMAIN events : events[i].cb = cb /\ \A j \in DOMAIN events :
                                            events[j].cb = cb => j <= i

-----
(* C25: every run of run_pipeline_core ends with exactly one terminal      *)
(* callback.  While the run is going on neither show_error nor on_finished *)
(* has been called; a run that failed has called show_error once, as its   *)
(* last callback, and never on_finished; a run that is done has called     *)
(* on_finished once, as its last callback, and never show_error, every     *)
(* enabled stage was called and returned without raising, and the last     *)
(* status update before on_finished is 100 percent.                        *)
C25_OneTerminalCallback ==
    /\ pc \in {"stage", "rename", "move", "backups", "cleanup", "finish"} =>
           Count("show_error") = 0 /\ Count("on_finished") = 0
    /\ pc = "failed" =>
           /\ Count("show_error") = 1
           /\ Count("on_finished") = 0
           /\ events[Len(events)].cb = "show_error"
    /\ pc = "done" =>
           /\ Count("on_finished") = 1
           /\ Count("show_error") = 0
           /\ events[Len(events)].cb = "on_finished"
           /\ Len(stage_trace) = Len(steps)
           /\ \A i \in DOMAIN steps : stage_trace[i].step = steps[i] /\ stage_trace[i].ok
           /\ Count("set_status") > 0
           /\ events[Last("set_status")].pct = Pct(100, 1)

\* a run of three stages has called on_finished
C25_Witness ==
    /\ pc = "done"
    /\ Len(steps) = 3
    /\ Count("on_finished") = 1

\* a run has failed in its second stage and called show_error
C25_WitnessFailed ==
    /\ pc = "failed"
    /\ Len(stage_trace) = 2
    /\ Count("show_error") = 1

-----------------------------------------------------------------------------
(* C26: recompression never destroys another asset.  When the precision    *)
(* stage has repacked, every media file of the input is in the output      *)
(* under its name with its own picture, or it is a key of the RenameMap    *)
(* and the file the RenameMap names for it holds its picture; and the      *)
(* output has as many media files as the input.                            *)
C26_NoAssetDestroyed ==
    Done("precision") =>
        /\ \A n \in In0 :
               \/ n \in InOut /\ out.media[n].img = n
               \/ /\ n \in DOMAIN rename_map
                  /\ rename_map[n] \in InOut
                  /\ out.media[rename_map[n]].img = n
        /\ Cardinality(InOut) = Cardinality(In0)

-----------------------------------------------------------------------------
(* C27: no temporary file is left in the media directory.  When a call of  *)
(* _replace_if_smaller or of the PNG-to-JPEG conversion has ended, however *)
(* it ended, the file <name>.tmp it worked with does not exist, so the     *)
(* repack finds no file that was not in the input or a rename target.      *)
C27_NoTempLeft ==
    ReplEnded => Temp \notin DOMAIN disk

-----------------------------------------------------------------------------
(* C28: the manifest stays consistent with the media directory.  Once      *)
(* recompress_images_with_sync has returned, every file of xl/media has a  *)
(* content type in [Content_Types].xml, by a Default entry for its         *)
(* extension or by an Override for its part name, also for a PNG that was  *)
(* converted and renamed to .jpg.                                          *)
C28_ManifestCoversMedia ==
    Synced => \A n \in DOMAIN pkg.media : Typed(pkg, n)

-----------------------------------------------------------------------------
(* C29: the result is still there when it is sent.  When slim_excel has    *)
(* returned a FileResponse, the file at the response's path exists, so the *)
(* server can stream it: the temporary directory of the request is never   *)
(* removed before that, whatever the stage flags were.                     *)
C29_ResultExistsWhenSent ==
    (wpc = "responded" /\ response.kind = "file") => Exists(fs, response.path)

-----------------------------------------------------------------------------
(* The Progress objects of the precision stage                             *)
(* (excel_slimmer_precision_plus.py, class Progress, lines 53-99) and the  *)
(* calls process_file makes on them (lines 379-449).  A method call is     *)
(* observed one statement at a time, and a thread is either the worker,    *)
(* which runs process_file, or a caller, which calls the methods of one    *)
(* object in any order.                                                    *)

MaxThreads == 2
MaxCalls == 3
MaxArg == 2

Worker == 0
Callers == 1..MaxThreads
NoThread == -1

Objects == {"overall_prog", "file_prog"}

\* Progress.__init__, lines 54-60
Fresh == [total |-> 100, current |-> 0]

\* the calls of the three methods
ResetCall(o, n) == [op |-> "reset", obj |-> o, arg |-> n]
AddCall(o, n) == [op |-> "add", obj |-> o, arg |-> n]
FinishCall(o) == [op |-> "finish", obj |-> o, arg |-> 0]

\* a thread that is in no call and has none to make
Resting == [calls |-> <<>>, pc |-> "idle", tmp |-> 0]

Idle(t) == thr[t] = Resting

\* the call thread t is making, and whether it is at position p of method op
Cur(t) == Head(thr[t].calls)

At(t, p, op) ==
    /\ thr[t].calls # <<>>
    /\ thr[t].pc = p
    /\ Cur(t).op = op

\* what a step of thread t leaves alone besides the fields it writes
Goto(t, p) ==
    /\ thr' = [thr EXCEPT ![t].pc = p]
    /\ UNCHANGED <<pf, issued>>
    /\ UNCHANGED not_prog_vars

\* process_file while it is not what is observed
NoFile ==
    [pc |-> "none", aggressive |-> FALSE, no_backup |-> FALSE,
     do_xml_cleanup |-> FALSE, force_customxml_remove |-> FALSE, steps |-> 0]

\* line 383: the number of steps of one file
FileSteps(f) ==
    10 + (IF f.aggressive THEN 1 ELSE 0) + (IF f.do_xml_cleanup THEN 1 ELSE 0)
       + (IF f.force_customxml_remove THEN 1 ELSE 0) + 1

\* a caller decides to call a method of file_prog: reset with any total,
\* add with any non-negative steps, or finish
Issue(t) ==
    /\ pf.pc = "none"
    /\ issued < MaxCalls
    /\ \E c \in {ResetCall("file_prog", n) : n \in 0..MaxArg}
                \cup {AddCall("file_prog", n) : n \in 0..MaxArg}
                \cup {FinishCall("file_prog")} :
           thr' = [thr EXCEPT ![t].calls = Append(@, c)]
    /\ issued' = issued + 1
    /\ UNCHANGED <<prog, lock, pf, label, owed>>
    /\ UNCHANGED not_prog_vars

\* `with self._lock:` on entry, lines 63, 75 and 82
Acquire(t) ==
    /\ thr[t].calls # <<>>
    /\ thr[t].pc = "idle"
    /\ lock[Cur(t).obj] = NoThread
    /\ lock' = [lock EXCEPT ![Cur(t).obj] = t]
    /\ Goto(t, "locked")
    /\ UNCHANGED <<prog, label, owed>>

\* reset, line 64: self.total = max(1, total_steps)
ResetTotal(t) ==
    /\ At(t, "locked", "reset")
    /\ prog' = [prog EXCEPT ![Cur(t).obj].total =
                   IF Cur(t).arg > 1 THEN Cur(t).arg ELSE 1]
    /\ Goto(t, "total_set")
    /\ UNCHANGED <<lock, label, owed>>

\* reset, lines 65-66: self.current = 0
ResetCurrent(t) ==
    /\ At(t, "total_set", "reset")
    /\ prog' = [prog EXCEPT ![Cur(t).obj].current = 0]
    /\ Goto(t, "done")
    /\ UNCHANGED <<lock, label, owed>>

\* add, line 76: `self.current += steps` reads the field ...
AddLoad(t) ==
    /\ At(t, "locked", "add")
    /\ thr' = [thr EXCEPT ![t].pc = "loaded", ![t].tmp = prog[Cur(t).obj].current]
    /\ UNCHANGED <<prog, lock, pf, label, owed, issued>>
    /\ UNCHANGED not_prog_vars

\* ... and writes the sum back
AddStore(t) ==
    /\ At(t, "loaded", "add")
    /\ prog' = [prog EXCEPT ![Cur(t).obj].current = thr[t].tmp + Cur(t).arg]
    /\ thr' = [thr EXCEPT ![t].pc = "stored", ![t].tmp = 0]
    /\ UNCHANGED <<lock, pf, label, owed, issued>>
    /\ UNCHANGED not_prog_vars

\* add, lines 77-78
AddClamp(t) ==
    /\ At(t, "stored", "add")
    /\ prog' = [prog EXCEPT ![Cur(t).obj].current =
                   IF @ > prog[Cur(t).obj].total THEN prog[Cur(t).obj].total ELSE @]
    /\ Goto(t, "done")
    /\ UNCHANGED <<lock, label, owed>>

\* finish, line 83
FinishSet(t) ==
    /\ At(t, "locked", "finish")
    /\ prog' = [prog EXCEPT ![Cur(t).obj].current = prog[Cur(t).obj].total]
    /\ Goto(t, "done")
    /\ UNCHANGED <<lock, label, owed>>

\* what the call that has just completed makes of current: reset leaves 0,
\* finish the total, and add the sum, cut at the total
Owed(c, o, tot) ==
    CASE c.op = "reset" -> 0
      [] c.op = "finish" -> tot
      [] OTHER -> IF o + c.arg > tot THEN tot ELSE o + c.arg

\* the end of the with block: the lock is released
Release(t) ==
    /\ thr[t].calls # <<>>
    /\ thr[t].pc = "done"
    /\ lock' = [lock EXCEPT ![Cur(t).obj] = NoThread]
    /\ owed' = [owed EXCEPT ![Cur(t).obj] =
                   Owed(Cur(t), @, prog[Cur(t).obj].total)]
    /\ Goto(t, "released")
    /\ UNCHANGED <<prog, label>>

\* _apply, lines 86-99, called without the lock: the percent it computes
\* from the fields as they are now; the call returns
Apply(t) ==
    /\ thr[t].calls # <<>>
    /\ thr[t].pc = "released"
    /\ label' = [label EXCEPT ![Cur(t).obj] =
                    (prog[Cur(t).obj].current * 100) \div prog[Cur(t).obj].total]
    /\ thr' = [thr EXCEPT ![t].calls = Tail(@), ![t].pc = "idle"]
    /\ UNCHANGED <<prog, lock, pf, owed, issued>>
    /\ UNCHANGED not_prog_vars

\* process_file goes on to position p once the worker has made the calls cs
Do(p, cs) ==
    /\ pf' = [pf EXCEPT !.pc = p]
    /\ thr' = [thr EXCEPT ![Worker].calls = cs]
    /\ UNCHANGED <<prog, lock, label, owed, issued>>
    /\ UNCHANGED not_prog_vars

\* `overall_prog.add(k); file_prog.add(k)`
Both(k) == <<AddCall("overall_prog", k), AddCall("file_prog", k)>>

\* process_file is at position p and its last call has returned
PfAt(p) == pf.pc = p /\ Idle(Worker)

\* lines 383-384
PfReset ==
    /\ PfAt("start")
    /\ pf' = [pf EXCEPT !.pc = "exists", !.steps = FileSteps(pf)]
    /\ thr' = [thr EXCEPT ![Worker].calls = <<ResetCall("file_prog", FileSteps(pf))>>]
    /\ UNCHANGED <<prog, lock, label, owed, issued>>
    /\ UNCHANGED not_prog_vars

\* lines 386-389
PfExists ==
    /\ PfAt("exists")
    /\ \E exists \in BOOLEAN :
           IF exists
           THEN Do("suffix", <<>>)
           ELSE Do("returned", <<AddCall("overall_prog", pf.steps), FinishCall("file_prog")>>)

\* lines 391-394
PfSuffix ==
    /\ PfAt("suffix")
    /\ \E supported \in BOOLEAN :
           IF supported
           THEN Do("stat", <<>>)
           ELSE Do("returned", <<AddCall("overall_prog", pf.steps), FinishCall("file_prog")>>)

\* line 396, before the try statement: stat() returns the size, or raises
\* (the file was removed or made unreadable after exists() saw it) and the
\* exception leaves process_file
StatOutcomes == {"ok", "FileNotFoundError"}

PfStat ==
    /\ PfAt("stat")
    /\ \E o \in StatOutcomes :
           Do(IF o = "ok" THEN "backup" ELSE "raised", <<>>)

\* lines 399-402: make_backup copies the file unless no_backup, and the
\* finally clause counts the step whether the copy raised or not
PfBackup ==
    /\ PfAt("backup")
    /\ \E raised \in {FALSE} \cup {~pf.no_backup} :
           Do(IF raised THEN "except" ELSE "unzip", Both(1))

\* line 406
PfUnzip ==
    /\ PfAt("unzip")
    /\ \E raised \in BOOLEAN :
           IF raised THEN Do("except", <<>>) ELSE Do("recompress", Both(1))

\* line 407
PfRecompress ==
    /\ PfAt("recompress")
    /\ \E raised \in BOOLEAN :
           IF raised THEN Do("except", <<>>) ELSE Do("xml", Both(1))

\* lines 408-420: the four removals, of which remove_thumbnail and
\* remove_docProps_core can raise (their unlink is not guarded), or one
\* add of 4
XmlOutcomes == {"ok", "thumbnail", "docProps"}

PfXml ==
    /\ PfAt("xml")
    /\ IF pf.do_xml_cleanup
       THEN \E o \in XmlOutcomes :
                CASE o = "ok" -> Do("customxml", Both(1) \o Both(1) \o Both(1) \o Both(1))
                  [] o = "thumbnail" -> Do("except", Both(1) \o Both(1))
                  [] o = "docProps" -> Do("except", Both(1) \o Both(1) \o Both(1))
       ELSE Do("customxml", Both(4))

\* lines 422-424: remove_customxml measures the part before its guarded
\* rmtree, and the measuring can raise
PfCustomXml ==
    /\ PfAt("customxml")
    /\ \E raised \in {FALSE} \cup {pf.force_customxml_remove} :
           IF raised THEN Do("except", <<>>) ELSE Do("rezip", Both(1))

\* lines 426-427
PfRezip ==
    /\ PfAt("rezip")
    /\ \E raised \in BOOLEAN :
           IF raised THEN Do("except", <<>>) ELSE Do("copy", Both(1))

\* lines 429-443: the copy to the output path, in a try whose finally
\* clause counts the step
PfCopy ==
    /\ PfAt("copy")
    /\ \E raised \in BOOLEAN :
           Do(IF raised THEN "except" ELSE "finally", Both(1))

\* lines 445-447
PfExcept ==
    /\ PfAt("except")
    /\ LET rest == pf.steps - (prog["overall_prog"].current % (pf.steps + 1))
       IN  Do("finally", <<AddCall("overall_prog", IF rest > 0 THEN rest ELSE 0)>>)

\* lines 448-449
PfFinally ==
    /\ PfAt("finally")
    /\ Do("returned", <<FinishCall("file_prog")>>)

\* the objects as run_precision (excel_suite_pipeline.py, lines 112-113) or
\* run_processing (lines 459-463, one file) hand them to process_file, or
\* as the callers find file_prog
ProgInit ==
    /\ PipeUnused
    /\ PkgUnused
    /\ IoUnused
    /\ WebUnused
    /\ lock = [o \in Objects |-> NoThread]
    /\ label = [o \in Objects |-> 0]
    /\ owed = [o \in Objects |-> 0]
    /\ issued = 0
    /\ \/ /\ pf = NoFile
          /\ thr = [t \in Callers |-> Resting]
          /\ prog = [o \in Objects |-> Fresh]
       \/ /\ \E a, n, x, c \in BOOLEAN :
                 pf = [pc |-> "start", aggressive |-> a, no_backup |-> n,
                       do_xml_cleanup |-> x, force_customxml_remove |-> c,
                       steps |-> 0]
          /\ thr = [t \in {Worker} |-> Resting]
          /\ \E reset \in BOOLEAN :
                 prog = [o \in Objects |->
                            IF o = "overall_prog" /\ reset
                            THEN [total |-> FileSteps(pf), current |-> 0]
                            ELSE Fresh]

ProgNext ==
    \/ \E t \in DOMAIN thr \cap Callers : Issue(t)
    \/ \E t \in DOMAIN thr : Acquire(t)
    \/ \E t \in DOMAIN thr : ResetTotal(t)
    \/ \E t \in DOMAIN thr : ResetCurrent(t)
    \/ \E t \in DOMAIN thr : AddLoad(t)
    \/ \E t \in DOMAIN thr : AddStore(t)
    \/ \E t \in DOMAIN thr : AddClamp(t)
    \/ \E t \in DOMAIN thr : FinishSet(t)
    \/ \E t \in DOMAIN thr : Release(t)
    \/ \E t \in DOMAIN thr : Apply(t)
    \/ PfReset
    \/ PfExists
    \/ PfSuffix
    \/ PfStat
    \/ PfBackup
    \/ PfUnzip
    \/ PfRecompress
    \/ PfXml
    \/ PfCustomXml
    \/ PfRezip
    \/ PfCopy
    \/ PfExcept
    \/ PfFinally

ProgSpec == ProgInit /\ [][ProgNext]_vars

\* no thread is inside a with block of object o
Free(o) == lock[o] = NoThread

\* process_file has been left, by return or by an exception
Exited == pf.pc \in {"returned", "raised"} /\ Idle(Worker)

(* C30: a Progress object stays within its bounds under threads.  Whenever *)
(* no thread is inside one of its methods' with blocks, total >= 1 and     *)
(* 0 <= current <= total; no add is lost, and a finish leaves current at   *)
(* total (current is what the completed calls, taken in the order of their *)
(* with blocks, make of it); and when process_file has been left, by an    *)
(* early return, after success or by an exception, the per-file progress   *)
(* is at its total.                                                        *)
C30_ProgressWithinBounds ==
    /\ \A o \in DOMAIN prog :
           Free(o) =>
               /\ prog[o].total >= 1
               /\ 0 <= prog[o].current
               /\ prog[o].current <= prog[o].total
               /\ prog[o].current = owed[o]
    /\ Exited => prog["file_prog"].current = prog["file_prog"].total

====
